---- MODULE Spec2Model ----
(***************************************************************************)
(* Model of the youtube-summarizer core: the ApiThrottler sliding-window   *)
(* gate, the GeminiService client built on it, and the Map/Reduce retry    *)
(* loops of ChunkSummarizerNode and SummaryReducerNode.                     *)
(*                                                                         *)
(* Time is the value of Date.now() in milliseconds.  A JavaScript async    *)
(* function runs without interruption between two awaits, so every action  *)
(* below is one such run: from a call or a timer wake-up to the next await.*)
(* A timer set with setTimeout(resolve, d) fires at or after now + d.      *)
(***************************************************************************)
EXTENDS Integers, Sequences, FiniteSets, TLC

VARIABLES
  now,        \* Date.now(), ms
  tickMs,     \* resolution of the clock: the step by which now advances
  th,         \* throttler instance -> ApiThrottler fields
  thOf,       \* caller -> the throttler instance its client holds
  pc,         \* caller -> position in throttle / generateContent
  wake,       \* caller -> instant its pending setTimeout fires (0: none)
  est,        \* caller -> estimatedTokens argument of its throttle call
  budget,     \* throttle calls a free caller may still start
  failsLeft,  \* requests the backend may still fail
  recLog,     \* recordApiCall calls of the trailing 60 s: <<Date.now(), throttler>>
  dayCalls,   \* throttler -> recordApiCall calls since the last local midnight
  issueLog,   \* requests sent in the trailing 60 s: <<Date.now(), throttler>>
  cfg,        \* chunk count and the node options maxConcurrent, maxRetries
  stage,      \* who drives the callers: "direct" (they call the throttler
              \* themselves), "client" (they call generateContent), or the
              \* position of a pipeline run in its flow: start (the fetcher
              \* is next), fetched (the validator is next), validated (the
              \* chunker), invalid (the error handler), chunked (the chunk
              \* summarizer), map, reduce (these nodes are running), reduced
              \* (the formatter is next), formatted, error (the flow ended),
              \* rejected (run() threw)
  loopIndex,  \* i of ChunkSummarizerNode.exec's batch loop (0-based)
  chunkSummaries, \* the chunkSummaries array local to exec
  shared,     \* YoutubeSharedStore fields written by the Map and Reduce nodes
  task,       \* caller -> attemptCount, lastError, result of its retry loop
  batches,    \* the batches exec has started: <<first chunk, last chunk>>
  chunker,    \* TranscriptChunkerNode: its strategy and maxTranscriptLength,
              \* the transcript handed to exec and the chunks exec returned
  svc         \* ServiceManager and the two background services it owns:
              \* their flags, their interval timers, and the initialize() and
              \* shutdown() calls under way

thrVars == <<now, tickMs, th, thOf, pc, wake, est, budget, failsLeft, recLog, dayCalls>>
mapVars == <<cfg, stage, loopIndex, chunkSummaries, shared, task, batches, chunker, svc>>
vars == <<now, tickMs, th, thOf, pc, wake, est, budget, failsLeft, recLog, dayCalls,
          issueLog,
          cfg, stage, loopIndex, chunkSummaries, shared, task, batches, chunker,
          svc>>

----------------------------------------------------------------------------
(* Bounds of the model                                                     *)

\* configuration handed to the ApiThrottler constructor (the code's default
\* is 15 / 1000000 / 1500; any ApiThrottlerConfig is accepted)
requestsPerMinute == 2
tokensPerMinute == 2
maxDailyRequests == 3
\* clock resolution: the clock advances in steps of Window / TicksPerWindow
TicksPerWindow == 3
\* a throttler is constructed at most StartTicks steps before a midnight
StartTicks == 4
\* the clock stops HorizonTicks steps after that midnight
HorizonTicks == 4
\* throttle calls per behaviour: of the single caller, of concurrent callers
MaxCalls == 5
ConcCalls == 3
\* concurrent callers start at most ConcStartTicks steps before a midnight
ConcStartTicks == 1
\* chunks handed to the Map stage, and the largest node options tried
MaxChunks == 6
\* chunks of a run followed on the fine clock
RetryChunks == 2
MaxConcurrentCap == 3
MaxRetriesCap == 3
\* requests the backend fails in one pipeline run
MaxFailures == 3
\* iterations of the batch loop followed after the first
MaxBatches == 7
\* chunks of the runs whose maxConcurrent is any accepted number
OptionChunks == 3

----------------------------------------------------------------------------
(* Clock                                                                   *)

Window == 60 * 1000
DayMs == 24 * 60 * 60 * 1000
FineTick == Window \div TicksPerWindow
CoarseTick == Window
Horizon == DayMs + HorizonTicks * tickMs
StartTime(ticks, tick) == DayMs - ticks * tick

\* the entries of a log that lie in the trailing window (t - 60 s, t]
Trim(log, t) == SelectSeq(log, LAMBDA e : e[1] > t - Window)

\* new Date() followed by setHours(24, 0, 0, 0): the first local midnight
\* strictly after t
NextMidnight(t) == ((t \div DayMs) + 1) * DayMs

\* a continuation that follows an await without any timer or I/O between
\* runs before the clock advances: the request after throttle has returned,
\* the flow's next node, the code after a settled Promise.all
Continuing ==
  \/ stage # "direct" /\ \E c \in DOMAIN pc : pc[c] = "passed"
  \/ stage \in {"fetched", "validated", "invalid", "chunked", "reduced"}
  \/ /\ stage = "map"
     /\ LET b == batches[Len(batches)]
        IN \/ \A c \in b[1]..b[2] : pc[c] = "returned"
           \/ \E c \in b[1]..b[2] : pc[c] = "threw"
  \/ stage = "reduce" /\ pc[cfg.chunkCount + 1] \in {"returned", "threw"}

Tick ==
  /\ ~Continuing
  /\ now + tickMs <= Horizon
  /\ now' = now + tickMs
  /\ recLog' = Trim(recLog, now')
  /\ issueLog' = Trim(issueLog, now')
  /\ dayCalls' = IF now' \div DayMs = now \div DayMs
                 THEN dayCalls
                 ELSE [t \in DOMAIN dayCalls |-> 0]
  /\ UNCHANGED <<tickMs, th, thOf, pc, wake, est, budget, failsLeft>>
  /\ UNCHANGED mapVars

----------------------------------------------------------------------------
(* ApiThrottler                                                            *)

NewThrottler(t) ==
  [requestQueue |-> <<>>, tokenQueue |-> <<>>, dailyRequests |-> 0,
   dailyResetTime |-> NextMidnight(t)]

\* a throttler constructed earlier on the day of t that has recorded d calls,
\* all of them more than 60 s before t
UsedThrottler(t, d) == [NewThrottler(t) EXCEPT !.dailyRequests = d]

Filter(q, oneMinuteAgo) == SelectSeq(q, LAMBDA timestamp : timestamp > oneMinuteAgo)

checkDailyReset(t, n) ==
  IF n >= t.dailyResetTime
  THEN [t EXCEPT !.dailyRequests = 0, !.dailyResetTime = NextMidnight(n)]
  ELSE t

\* TokenPhase entering the call in the request list as it lets it pass
TokenPhaseReserving(t, e, n) ==
  IF Len(t.tokenQueue) + e > tokensPerMinute
  THEN [t |-> t, pc |-> "waitTok", wake |-> n + Window]
  ELSE [t |-> [t EXCEPT !.requestQueue = Append(@, n)], pc |-> "passed",
        wake |-> 0]

\* throttle, lines 84-93: the token check; a flat 60 s sleep on overflow
TokenPhase(t, e, n) ==
  IF Len(t.tokenQueue) + e > tokensPerMinute
  THEN [t |-> t, pc |-> "waitTok", wake |-> n + Window]
  ELSE [t |-> t, pc |-> "passed", wake |-> 0]

\* RequestPhase with the request check off by one (> for >=)
RequestPhaseOffByOne(t, e, n) ==
  LET oneMinuteAgo == n - Window
      p == [t EXCEPT !.requestQueue = Filter(t.requestQueue, oneMinuteAgo),
                     !.tokenQueue = Filter(t.tokenQueue, oneMinuteAgo)]
  IN IF Len(p.requestQueue) > requestsPerMinute
     THEN [t |-> p, pc |-> "waitReq",
           wake |-> n + (Window - (n - p.requestQueue[1]))]
     ELSE TokenPhase(p, e, n)

\* throttle, lines 66-82: prune both queues, then the request check
RequestPhase(t, e, n) ==
  LET oneMinuteAgo == n - Window
      p == [t EXCEPT !.requestQueue = Filter(t.requestQueue, oneMinuteAgo),
                     !.tokenQueue = Filter(t.tokenQueue, oneMinuteAgo)]
  IN IF Len(p.requestQueue) >= requestsPerMinute
     THEN [t |-> p, pc |-> "waitReq",
           wake |-> n + (Window - (n - p.requestQueue[1]))]
     ELSE TokenPhase(p, e, n)

\* throttle, lines 47-58: the daily reset and the daily check
DailyPhase(t, e, n) ==
  LET r == checkDailyReset(t, n)
  IN IF r.dailyRequests >= maxDailyRequests
     THEN [t |-> r, pc |-> "waitDaily", wake |-> n + (r.dailyResetTime - n)]
     ELSE RequestPhase(r, e, n)

\* throttle, lines 60-63: the reset after the sleep to the reset instant
AfterDailyWait(t, n) ==
  [t EXCEPT !.dailyRequests = 0, !.dailyResetTime = NextMidnight(n)]

Repeat(x, k) == [i \in 1..k |-> x]

recordApiCall(t, tokenCount, n) ==
  [t EXCEPT !.requestQueue = Append(@, n),
            !.tokenQueue = @ \o Repeat(n, tokenCount),
            !.dailyRequests = @ + 1]

----------------------------------------------------------------------------
(* Callers of the throttler                                                *)

Callers == DOMAIN pc

Resume(c, r) ==
  /\ th' = [th EXCEPT ![thOf[c]] = r.t]
  /\ pc' = [pc EXCEPT ![c] = r.pc]
  /\ wake' = [wake EXCEPT ![c] = r.wake]

\* a caller that uses the ApiThrottler directly calls throttle(e)
throttle(c, e) ==
  /\ pc[c] = "idle"
  /\ budget > 0
  /\ budget' = budget - 1
  /\ est' = [est EXCEPT ![c] = e]
  /\ Resume(c, DailyPhase(th[thOf[c]], e, now))
  /\ UNCHANGED <<now, tickMs, thOf, failsLeft, recLog, dayCalls, issueLog>>
  /\ UNCHANGED mapVars

\* the setTimeout of line 58 fires
WakeDaily(c) ==
  /\ pc[c] = "waitDaily"
  /\ now >= wake[c]
  /\ Resume(c, RequestPhase(AfterDailyWait(th[thOf[c]], now), est[c], now))
  /\ UNCHANGED <<now, tickMs, thOf, est, budget, failsLeft, recLog, dayCalls, issueLog>>
  /\ UNCHANGED mapVars

\* the setTimeout of line 81 fires
WakeReq(c) ==
  /\ pc[c] = "waitReq"
  /\ now >= wake[c]
  /\ Resume(c, TokenPhase(th[thOf[c]], est[c], now))
  /\ UNCHANGED <<now, tickMs, thOf, est, budget, failsLeft, recLog, dayCalls, issueLog>>
  /\ UNCHANGED mapVars

\* WakeTok checking the tokens again after the sleep
WakeTokAgain(c) ==
  /\ pc[c] = "waitTok"
  /\ now >= wake[c]
  /\ Resume(c, TokenPhase(th[thOf[c]], est[c], now))
  /\ UNCHANGED <<now, tickMs, thOf, est, budget, failsLeft, recLog, dayCalls, issueLog>>
  /\ UNCHANGED mapVars

\* the setTimeout of line 92 fires
WakeTok(c) ==
  /\ pc[c] = "waitTok"
  /\ now >= wake[c]
  /\ Resume(c, [t |-> th[thOf[c]], pc |-> "passed", wake |-> 0])
  /\ UNCHANGED <<now, tickMs, thOf, est, budget, failsLeft, recLog, dayCalls, issueLog>>
  /\ UNCHANGED mapVars

\* the direct caller reports its usage: recordApiCall(n)
Record(c, n) ==
  /\ pc[c] = "passed"
  /\ th' = [th EXCEPT ![thOf[c]] = recordApiCall(@, n, now)]
  /\ recLog' = Append(recLog, <<now, thOf[c]>>)
  /\ dayCalls' = [dayCalls EXCEPT ![thOf[c]] = @ + 1]
  /\ pc' = [pc EXCEPT ![c] = "idle"]
  /\ est' = [est EXCEPT ![c] = 0]
  /\ UNCHANGED <<now, tickMs, thOf, wake, budget, failsLeft, issueLog>>
  /\ UNCHANGED mapVars

\* token counts passed to throttle and recordApiCall: from none, so that the
\* request check alone holds a call back, up to one more than the per-minute
\* cap, so that a single call can overflow it
TokenCounts == 0..(tokensPerMinute + 1)

----------------------------------------------------------------------------
(* GeminiService.generateContent                                           *)

NoText == [task |-> 0, attempt |-> 0]
NoError == [kind |-> "none", task |-> 0, attempt |-> 0]
\* the error the backend raises on attempt k of caller c
BackendError(c, k) == [kind |-> "backend", task |-> c, attempt |-> k]
\* line 223: throw new Error(`Failed to generate content: ${errorMessage}`)
Wrapped(e) == [e EXCEPT !.kind = "Failed to generate content"]
\* the text the backend returns on attempt k of caller c
BackendText(c, k) == [task |-> c, attempt |-> k]

\* lines 194-199 for a caller outside any retry loop; e is estimatedTotalTokens
generateContent(c, e) ==
  /\ pc[c] = "idle"
  /\ budget > 0
  /\ budget' = budget - 1
  /\ est' = [est EXCEPT ![c] = e]
  /\ Resume(c, DailyPhase(th[thOf[c]], e, now))
  /\ UNCHANGED <<now, tickMs, thOf, failsLeft, recLog, dayCalls, issueLog>>
  /\ UNCHANGED mapVars

\* lines 201-213: throttle has returned and the request goes to the backend
SendRequest(c) ==
  /\ pc[c] = "passed"
  /\ pc' = [pc EXCEPT ![c] = "inflight"]
  /\ issueLog' = Append(issueLog, <<now, thOf[c]>>)
  /\ task' = [task EXCEPT ![c].sent = @ + 1]
  /\ UNCHANGED <<now, tickMs, th, thOf, wake, est, budget, failsLeft, recLog, dayCalls>>
  /\ UNCHANGED <<cfg, chunker, svc, stage, loopIndex, chunkSummaries, shared, batches>>

\* lines 214-219: the response arrives; recordApiCall(estimatedTotalTokens)
Succeed(c, next) ==
  /\ pc[c] = "inflight"
  /\ th' = [th EXCEPT ![thOf[c]] = recordApiCall(@, est[c], now)]
  /\ recLog' = Append(recLog, <<now, thOf[c]>>)
  /\ dayCalls' = [dayCalls EXCEPT ![thOf[c]] = @ + 1]
  /\ pc' = [pc EXCEPT ![c] = next]
  /\ UNCHANGED <<now, tickMs, thOf, wake, est, budget, failsLeft, issueLog>>

Respond(c) ==
  /\ task[c].attemptCount = 0
  /\ Succeed(c, "idle")
  /\ UNCHANGED mapVars

\* lines 220-224: the request fails; nothing is recorded
Reject(c) ==
  /\ task[c].attemptCount = 0
  /\ pc[c] = "inflight"
  /\ failsLeft > 0
  /\ failsLeft' = failsLeft - 1
  /\ pc' = [pc EXCEPT ![c] = "idle"]
  /\ UNCHANGED <<now, tickMs, th, thOf, wake, est, budget, recLog, dayCalls, issueLog>>
  /\ UNCHANGED mapVars

----------------------------------------------------------------------------
(* ChunkSummarizerNode and SummaryReducerNode                              *)

Min(a, b) == IF a < b THEN a ELSE b
Max(a, b) == IF a > b THEN a ELSE b
CeilDiv(a, b) == (a + b - 1) \div b
RECURSIVE Pow2(_)
Pow2(k) == IF k = 0 THEN 1 ELSE 2 * Pow2(k - 1)

\* actualConcurrency with Math.max in the place of Math.min
actualConcurrencyMax(chunkCount, maxConcurrent) ==
  Max(maxConcurrent, Max(2, CeilDiv(6, chunkCount)))

\* chunkSummarizer.ts line 60
actualConcurrency(chunkCount, maxConcurrent) ==
  Min(maxConcurrent, Max(2, CeilDiv(6, chunkCount)))

Chunks == 1..cfg.chunkCount
ReducerTask == cfg.chunkCount + 1

\* promptChars, maxOutputTokens: the arguments of the generateContent call
\* of a caller that is followed with them; textChars: the length of the text
\* the backend returned to it
\* attemptCount, lastError: the locals of the retry loop; result: what the
\* loop returned; sent, failed: the requests of this caller that reached the
\* backend and those the backend failed; order: while its batch is the last
\* one started, the position of this caller among the calls of the batch by
\* the instant they returned
NewTask == [attemptCount |-> 0, lastError |-> NoError, result |-> NoText,
            sent |-> 0, failed |-> 0, order |-> 0,
            promptChars |-> 0, maxOutputTokens |-> 0, textChars |-> 0]

\* Caught keeping the first error instead of the last
CaughtFirst(k, e) ==
  [k EXCEPT !.lastError = IF @ = NoError THEN e ELSE @, !.failed = @ + 1]

\* the catch block, line 115: lastError = error
Caught(k, e) == [k EXCEPT !.lastError = e, !.failed = @ + 1]

\* LoopStep with the loop test off by one (<= for <)
LoopStepOneMore(t, c, k, n) ==
  IF k.attemptCount <= cfg.maxRetries
  THEN LET r == DailyPhase(t, est[c], n)
       IN [t |-> r.t, pc |-> r.pc, wake |-> r.wake,
           task |-> [k EXCEPT !.attemptCount = @ + 1]]
  ELSE [t |-> t, pc |-> "threw", wake |-> 0, task |-> k]

\* LoopStep sending the request without the throttle call
LoopStepUnthrottled(t, c, k, n) ==
  IF k.attemptCount < cfg.maxRetries
  THEN [t |-> t, pc |-> "inflight", wake |-> 0,
        task |-> [k EXCEPT !.attemptCount = @ + 1, !.sent = @ + 1]]
  ELSE [t |-> t, pc |-> "threw", wake |-> 0, task |-> k]

\* the loop test of the retry loop and what follows it without an await:
\* either attemptCount++ and generateContent up to throttle's first await, or
\* the throw after the loop
LoopStep(t, c, k, n) ==
  IF k.attemptCount < cfg.maxRetries
  THEN LET r == DailyPhase(t, est[c], n)
       IN [t |-> r.t, pc |-> r.pc, wake |-> r.wake,
           task |-> [k EXCEPT !.attemptCount = @ + 1]]
  ELSE [t |-> t, pc |-> "threw", wake |-> 0,
        task |-> [k EXCEPT !.lastError =
                    IF @ = NoError
                    THEN [kind |-> "Failed after attempts", task |-> c,
                          attempt |-> cfg.maxRetries]
                    ELSE @]]

\* batch.map(...): summarizeChunkWithRetry is called for the chunks
\* first..last in order, each running up to its first await
RECURSIVE StartTasks(_, _, _)
StartTasks(c, last, acc) ==
  IF c > last THEN acc
  ELSE LET r == LoopStep(acc.t, c, acc.task[c], now)
       IN StartTasks(c + 1, last,
                     [t |-> r.t,
                      pc |-> [acc.pc EXCEPT ![c] = r.pc],
                      wake |-> [acc.wake EXCEPT ![c] = r.wake],
                      task |-> [acc.task EXCEPT ![c] = r.task]])

\* one iteration of the batch loop, lines 64-69, from loop index i
StartBatch(i) ==
  LET ac == actualConcurrency(cfg.chunkCount, cfg.maxConcurrent)
      first == i + 1
      last == Min(i + ac, cfg.chunkCount)
      r == StartTasks(first, last,
                      [t |-> th[thOf[first]], pc |-> pc, wake |-> wake,
                       task |-> [c \in DOMAIN task |->
                                   [task[c] EXCEPT !.order = 0]]])
  IN /\ th' = [th EXCEPT ![thOf[first]] = r.t]
     /\ pc' = r.pc
     /\ wake' = r.wake
     /\ task' = r.task
     /\ batches' = Append(batches, <<first, last>>)

\* MapExec without the check of lines 49-51: an empty chunk list yields an
\* empty list of summaries, which post stores before the reducer runs
MapExecUnchecked ==
  /\ stage = "chunked"
  /\ IF cfg.chunkCount = 0
     THEN /\ stage' = "reduce"
          /\ LET r == LoopStep(th[thOf[ReducerTask]], ReducerTask,
                               task[ReducerTask], now)
             IN /\ Resume(ReducerTask, r)
                /\ task' = [task EXCEPT ![ReducerTask] = r.task]
          /\ batches' = <<<<1, 0>>>>
          /\ UNCHANGED <<loopIndex, chunkSummaries>>
     ELSE /\ stage' = "map"
          /\ loopIndex' = 0
          /\ chunkSummaries' = <<>>
          /\ StartBatch(0)
  /\ UNCHANGED <<now, tickMs, thOf, est, budget, failsLeft, recLog, dayCalls, issueLog, cfg, chunker, svc, shared>>

\* exec, lines 48-69: no chunks, and exec throws; otherwise the first batch
\* is started
MapExec ==
  /\ stage = "chunked"
  /\ IF cfg.chunkCount = 0
     THEN /\ stage' = "rejected"
          /\ shared' = [shared EXCEPT
               !.thrown = [kind |-> "No chunks available for summarization",
                           task |-> 0, attempt |-> 0]]
          /\ UNCHANGED <<th, pc, wake, task, loopIndex, chunkSummaries, batches>>
     ELSE /\ stage' = "map"
          /\ loopIndex' = 0
          /\ chunkSummaries' = <<>>
          /\ StartBatch(0)
          /\ UNCHANGED shared
  /\ UNCHANGED <<now, tickMs, thOf, est, budget, failsLeft, recLog, dayCalls, issueLog, cfg, chunker, svc>>

CurrentBatch == batches[Len(batches)][1]..batches[Len(batches)][2]

\* summarizeChunkWithRetry, lines 111-112: the attempt succeeded
AttemptOk(c) ==
  /\ task[c].attemptCount > 0
  /\ Succeed(c, "returned")
  /\ task' = [task EXCEPT ![c].result = BackendText(c, task[c].sent),
                          ![c].order = 1 + Cardinality({d \in CurrentBatch \ {c} :
                                                         pc[d] = "returned"})]
  /\ UNCHANGED <<cfg, chunker, svc, stage, loopIndex, chunkSummaries, shared, batches>>

\* AttemptFail with one attempt counter shared by all the calls
AttemptFailShared(c) ==
  /\ task[c].attemptCount > 0
  /\ pc[c] = "inflight"
  /\ failsLeft > 0
  /\ failsLeft' = failsLeft - 1
  /\ pc' = [pc EXCEPT ![c] = "backoff"]
  /\ wake' = [wake EXCEPT ![c] = now + Pow2(task[c].attemptCount) * 1000]
  /\ task' = [d \in DOMAIN task |->
                IF d = c THEN Caught(task[d], Wrapped(BackendError(c, task[d].sent)))
                ELSE [task[d] EXCEPT !.attemptCount = @ + 1]]
  /\ UNCHANGED <<now, tickMs, th, thOf, est, budget, recLog, dayCalls, issueLog>>
  /\ UNCHANGED <<cfg, chunker, svc, stage, loopIndex, chunkSummaries, shared, batches>>

\* backoffMs doubling from one second (2^(attemptCount - 1) seconds)
backoffMsFromOne(attemptCount) == Pow2(attemptCount - 1) * 1000

\* line 118: Math.pow(2, attemptCount) * 1000
backoffMs(attemptCount) == Pow2(attemptCount) * 1000

\* AttemptFail with the failed request recorded in the throttler
AttemptFailRecording(c) ==
  /\ task[c].attemptCount > 0
  /\ pc[c] = "inflight"
  /\ failsLeft > 0
  /\ failsLeft' = failsLeft - 1
  /\ pc' = [pc EXCEPT ![c] = "backoff"]
  /\ wake' = [wake EXCEPT ![c] = now + backoffMs(task[c].attemptCount)]
  /\ task' = [task EXCEPT ![c] = Caught(@, Wrapped(BackendError(c, @.sent)))]
  /\ th' = [th EXCEPT ![thOf[c]] = recordApiCall(@, est[c], now)]
  /\ recLog' = Append(recLog, <<now, thOf[c]>>)
  /\ dayCalls' = [dayCalls EXCEPT ![thOf[c]] = @ + 1]
  /\ UNCHANGED <<now, tickMs, thOf, est, budget, issueLog>>
  /\ UNCHANGED <<cfg, chunker, svc, stage, loopIndex, chunkSummaries, shared, batches>>

\* summarizeChunkWithRetry, lines 113-120: the attempt failed; back off
AttemptFail(c) ==
  /\ task[c].attemptCount > 0
  /\ pc[c] = "inflight"
  /\ failsLeft > 0
  /\ failsLeft' = failsLeft - 1
  /\ pc' = [pc EXCEPT ![c] = "backoff"]
  /\ wake' = [wake EXCEPT ![c] = now + backoffMs(task[c].attemptCount)]
  /\ task' = [task EXCEPT ![c] = Caught(@, Wrapped(BackendError(c, @.sent)))]
  /\ UNCHANGED <<now, tickMs, th, thOf, est, budget, recLog, dayCalls, issueLog>>
  /\ UNCHANGED <<cfg, chunker, svc, stage, loopIndex, chunkSummaries, shared, batches>>

\* the backoff timer fires: the loop test, then the next attempt or the throw
WakeBackoff(c) ==
  /\ pc[c] = "backoff"
  /\ now >= wake[c]
  /\ LET r == LoopStep(th[thOf[c]], c, task[c], now)
     IN /\ Resume(c, r)
        /\ task' = [task EXCEPT ![c] = r.task]
  /\ UNCHANGED <<now, tickMs, thOf, est, budget, failsLeft, recLog, dayCalls, issueLog>>
  /\ UNCHANGED <<cfg, chunker, svc, stage, loopIndex, chunkSummaries, shared, batches>>

\* SummaryReducerNode.prep and exec up to the first await of the first attempt
StartReduce(summaries) ==
  LET r == LoopStep(th[thOf[ReducerTask]], ReducerTask, task[ReducerTask], now)
  IN /\ Resume(ReducerTask, r)
     /\ task' = [task EXCEPT ![ReducerTask] = r.task]

\* the results of a batch in the order its calls returned
RECURSIVE ResultsAsSettled(_, _, _)
ResultsAsSettled(first, last, k) ==
  IF k > last - first + 1 THEN <<>>
  ELSE LET c == CHOOSE d \in first..last : task[d].order = k
       IN <<task[c].result>> \o ResultsAsSettled(first, last, k + 1)

\* BatchResults pushing each result as its call settles
BatchResultsAsSettled(first, last) == ResultsAsSettled(first, last, 1)

\* Promise.all resolves with the results in the order of batchPromises
BatchResults(first, last) ==
  [k \in 1..(last - first + 1) |-> task[first + k - 1].result]

\* BatchSettled with Promise.allSettled in the place of Promise.all
BatchSettledLenient == \A c \in CurrentBatch : pc[c] \in {"returned", "threw"}

\* BatchSettled with Promise.race in the place of Promise.all
BatchSettledAny == \E c \in CurrentBatch : pc[c] = "returned"

\* await Promise.all(batchPromises), line 72, resolves
BatchSettled == \A c \in CurrentBatch : pc[c] = "returned"

\* BatchResolved leaving the batch loop after the first batch
BatchResolvedEarly ==
  /\ stage = "map"
  /\ BatchSettled
  /\ LET first == batches[Len(batches)][1]
         last == batches[Len(batches)][2]
         pushed == chunkSummaries \o BatchResults(first, last)
     IN /\ chunkSummaries' = pushed
        /\ loopIndex' = cfg.chunkCount
        /\ stage' = "reduce"
        /\ shared' = [shared EXCEPT !.chunkSummaries = pushed]
        /\ StartReduce(pushed)
        /\ UNCHANGED batches
  /\ UNCHANGED <<now, tickMs, thOf, est, budget, failsLeft, recLog, dayCalls, issueLog, cfg, chunker, svc>>

\* Promise.all of the current batch resolves, lines 72-77: the results are
\* pushed and the next batch starts, or exec returns, post stores the array
\* and the flow runs the reducer
BatchResolved ==
  /\ stage = "map"
  /\ BatchSettled
  /\ Len(batches) <= MaxBatches
  /\ LET ac == actualConcurrency(cfg.chunkCount, cfg.maxConcurrent)
         first == batches[Len(batches)][1]
         last == batches[Len(batches)][2]
         pushed == chunkSummaries \o BatchResults(first, last)
         i == loopIndex + ac
     IN /\ chunkSummaries' = pushed
        /\ loopIndex' = i
        /\ IF i < cfg.chunkCount
           THEN /\ StartBatch(i)
                /\ UNCHANGED <<stage, shared>>
           ELSE /\ stage' = "reduce"
                /\ shared' = [shared EXCEPT !.chunkSummaries = pushed]
                /\ StartReduce(pushed)
                /\ UNCHANGED batches
  /\ UNCHANGED <<now, tickMs, thOf, est, budget, failsLeft, recLog, dayCalls, issueLog, cfg, chunker, svc>>

\* Promise.all rejects with the error of a chunk that threw: exec throws and
\* the flow's run() rejects with it
BatchRejected(c) ==
  /\ stage = "map"
  /\ c \in CurrentBatch
  /\ pc[c] = "threw"
  /\ stage' = "rejected"
  /\ shared' = [shared EXCEPT !.thrown = task[c].lastError]
  /\ UNCHANGED <<now, tickMs, th, thOf, pc, wake, est, budget, failsLeft, recLog, dayCalls, issueLog>>
  /\ UNCHANGED <<cfg, chunker, svc, loopIndex, chunkSummaries, task, batches>>

\* SummaryReducerNode.exec returned; post stores the summary, lines 137-141
ReduceResolved ==
  /\ stage = "reduce"
  /\ pc[ReducerTask] = "returned"
  /\ stage' = "reduced"
  /\ shared' = [shared EXCEPT !.summary = task[ReducerTask].result]
  /\ UNCHANGED <<now, tickMs, th, thOf, pc, wake, est, budget, failsLeft, recLog, dayCalls, issueLog>>
  /\ UNCHANGED <<cfg, chunker, svc, loopIndex, chunkSummaries, task, batches>>

\* ReduceRejected falling back on the first chunk summary
ReduceFallback ==
  /\ stage = "reduce"
  /\ pc[ReducerTask] = "threw"
  /\ stage' = "reduced"
  /\ shared' = [shared EXCEPT !.summary = shared.chunkSummaries[1]]
  /\ UNCHANGED <<now, tickMs, th, thOf, pc, wake, est, budget, failsLeft, recLog, dayCalls, issueLog>>
  /\ UNCHANGED <<cfg, chunker, svc, loopIndex, chunkSummaries, task, batches>>

\* SummaryReducerNode.exec threw, line 131
ReduceRejected ==
  /\ stage = "reduce"
  /\ pc[ReducerTask] = "threw"
  /\ stage' = "rejected"
  /\ shared' = [shared EXCEPT !.thrown = task[ReducerTask].lastError]
  /\ UNCHANGED <<now, tickMs, th, thOf, pc, wake, est, budget, failsLeft, recLog, dayCalls, issueLog>>
  /\ UNCHANGED <<cfg, chunker, svc, loopIndex, chunkSummaries, task, batches>>

----------------------------------------------------------------------------
(* The flow around Map and Reduce: fetcher, validator, chunker, formatter  *)
(* and error handler                                                       *)

\* TranscriptValidatorNode's constructor default, and the word minimum
minTranscriptLength == 100
MinWords == 20

\* a transcript is known by what the validator measures of it: length, the
\* number of parts split(/\s+/) yields, and the characters that are letters,
\* digits or white space
NoTranscript == [length |-> 0, words |-> 1, alnum |-> 0]
Lengths == {0, minTranscriptLength - 1, minTranscriptLength, 2 * minTranscriptLength}
Transcripts ==
  {t \in [length : Lengths, words : {1, MinWords - 1, MinWords},
          alnum : 0..(2 * minTranscriptLength)] :
     /\ t.alnum \in {0, (t.length - 1) \div 2, (t.length + 1) \div 2, t.length}
     /\ t.alnum <= t.length
     /\ t.alnum >= t.words - 1
     /\ t.words <= t.length + 1}

NoMessage == [prefix |-> "none", reason |-> "none"]
Message(p, r) == [prefix |-> p, reason |-> r]
Thrown(m) == [kind |-> m, task |-> 0, attempt |-> 0]
NoFormatted == [summary |-> NoText]

\* validate with the quality check left out
validateNoQuality(t) ==
  IF t.length = 0
  THEN [isValid |-> FALSE, reason |-> "No transcript found"]
  ELSE IF t.length < minTranscriptLength
  THEN [isValid |-> FALSE, reason |-> "Transcript is too short"]
  ELSE IF t.words < MinWords
  THEN [isValid |-> FALSE, reason |-> "Transcript has too few words"]
  ELSE [isValid |-> TRUE, reason |-> "none"]

\* validate counting the words before it looks at the length
validateWordsFirst(t) ==
  IF t.length = 0
  THEN [isValid |-> FALSE, reason |-> "No transcript found"]
  ELSE IF t.words < MinWords
  THEN [isValid |-> FALSE, reason |-> "Transcript has too few words"]
  ELSE IF t.length < minTranscriptLength
  THEN [isValid |-> FALSE, reason |-> "Transcript is too short"]
  ELSE IF 2 * t.alnum < t.length
  THEN [isValid |-> FALSE, reason |-> "Transcript appears to be low quality"]
  ELSE [isValid |-> TRUE, reason |-> "none"]

\* TranscriptValidatorNode.exec
validate(t) ==
  IF t.length = 0
  THEN [isValid |-> FALSE, reason |-> "No transcript found"]
  ELSE IF t.length < minTranscriptLength
  THEN [isValid |-> FALSE, reason |-> "Transcript is too short"]
  ELSE IF t.words < MinWords
  THEN [isValid |-> FALSE, reason |-> "Transcript has too few words"]
  ELSE IF 2 * t.alnum < t.length
  THEN [isValid |-> FALSE, reason |-> "Transcript appears to be low quality"]
  ELSE [isValid |-> TRUE, reason |-> "none"]

\* Successor with the fetcher wired to the chunker
SuccessorSkipValidator(node, action) ==
  CASE node = "fetcher" /\ action = "default" -> "chunker"
    [] node = "validator" /\ action = "valid" -> "chunker"
    [] node = "validator" /\ action = "invalid" -> "errorHandler"
    [] node = "chunker" /\ action = "default" -> "chunkSummarizer"
    [] node = "chunkSummarizer" /\ action = "summarized" -> "reducer"
    [] node = "reducer" /\ action = "default" -> "formatter"
    [] OTHER -> "none"

\* the edges build() wires, lines 266-271; "none": the flow ends
Successor(node, action) ==
  CASE node = "fetcher" /\ action = "default" -> "validator"
    [] node = "validator" /\ action = "valid" -> "chunker"
    [] node = "validator" /\ action = "invalid" -> "errorHandler"
    [] node = "chunker" /\ action = "default" -> "chunkSummarizer"
    [] node = "chunkSummarizer" /\ action = "summarized" -> "reducer"
    [] node = "reducer" /\ action = "default" -> "formatter"
    [] OTHER -> "none"

\* the position of a run whose next node is given
Entry(node) ==
  CASE node = "validator" -> "fetched"
    [] node = "chunker" -> "validated"
    [] node = "errorHandler" -> "invalid"
    [] node = "chunkSummarizer" -> "chunked"
    [] node = "formatter" -> "reduced"

flowRest == <<now, tickMs, th, thOf, pc, wake, est, budget, failsLeft, recLog,
              dayCalls, issueLog, cfg, chunker, svc, loopIndex, chunkSummaries, task,
              batches>>

\* what the transcript service does with the video id: it fails, or it
\* returns a transcript
FetchOutcomes ==
  {[failed |-> TRUE, transcript |-> NoTranscript]}
    \cup {[failed |-> FALSE, transcript |-> t] : t \in Transcripts}

\* TranscriptFetcherNode: prep, exec and post
Fetch(outcome) ==
  /\ stage = "start"
  /\ IF shared.videoUrl = "empty"
     THEN /\ stage' = "rejected"
          /\ shared' = [shared EXCEPT
               !.error = Message("", "No video ID or URL provided"),
               !.thrown = Thrown("No video ID available for transcript fetching")]
     ELSE IF shared.videoUrl = "notYoutube"
     THEN /\ stage' = "rejected"
          /\ shared' = [shared EXCEPT
               !.error = Message("", "Could not extract video ID from URL"),
               !.thrown = Thrown("No video ID available for transcript fetching")]
     ELSE IF outcome.failed
     THEN /\ stage' = "rejected"
          /\ shared' = [shared EXCEPT
               !.videoId = TRUE,
               !.thrown = Thrown("Failed to fetch transcript for video ID")]
     ELSE /\ stage' = Entry(Successor("fetcher", "default"))
          /\ shared' = [shared EXCEPT !.videoId = TRUE,
                                   !.transcript = outcome.transcript]
  /\ UNCHANGED flowRest

\* TranscriptValidatorNode: prep, exec and post
Validate ==
  /\ stage = "fetched"
  /\ LET execRes == validate(shared.transcript)
     IN IF execRes.isValid
        THEN /\ stage' = Entry(Successor("validator", "valid"))
             /\ UNCHANGED shared
        ELSE /\ stage' = Entry(Successor("validator", "invalid"))
             /\ shared' = [shared EXCEPT !.error = Message("", execRes.reason)]
  /\ UNCHANGED flowRest

\* ErrorHandlerNode.exec
errorMessage(s) ==
  IF s.error = NoMessage THEN Message("An unknown error occurred.", "none")
  ELSE IF s.videoId /\ s.transcript.length = 0
  THEN Message("Failed to fetch transcript for video", s.error.reason)
  ELSE IF s.transcript.length # 0 /\ s.chunks = 0
  THEN Message("Failed to process transcript", s.error.reason)
  ELSE IF s.chunks # 0 /\ s.summary = NoText
  THEN Message("Failed to generate summary", s.error.reason)
  ELSE Message("Error", s.error.reason)

\* ErrorHandlerNode: prep, exec and post; it has no successor
HandleError ==
  /\ stage = "invalid"
  /\ stage' = "error"
  /\ shared' = [shared EXCEPT !.error = errorMessage(shared)]
  /\ UNCHANGED flowRest

\* TranscriptChunkerNode: prep, exec and post; the strategy yields
\* cfg.chunkCount chunks
Chunk ==
  /\ stage = "validated"
  /\ IF shared.transcript.length = 0
     THEN /\ stage' = "rejected"
          /\ shared' = [shared EXCEPT
               !.thrown = Thrown("No transcript available for chunking")]
     ELSE /\ stage' = Entry(Successor("chunker", "default"))
          /\ shared' = [shared EXCEPT !.chunks = cfg.chunkCount]
  /\ UNCHANGED flowRest

\* SummaryFormatterNode: prep, exec and post; it has no successor
Format ==
  /\ stage = "reduced"
  /\ IF shared.summary = NoText
     THEN /\ stage' = "rejected"
          /\ shared' = [shared EXCEPT
               !.thrown = Thrown("No summary available for formatting")]
     ELSE /\ stage' = "formatted"
          /\ shared' = [shared EXCEPT !.formattedSummary = [summary |-> shared.summary]]
  /\ UNCHANGED flowRest

----------------------------------------------------------------------------
(* Chunking strategies                                                     *)
(*                                                                         *)
(* A transcript is described by its length in characters and by the pieces *)
(* the sentence detection cuts it into.  A piece has the identity of its   *)
(* text (two pieces with the same text are equal strings), its length, its *)
(* length once trimmed, and the points scoreSentences gives its content    *)
(* (in half points, the position of the sentence not counted).  A sentence *)
(* is a piece that survived, together with its index in the sentences      *)
(* array; the code's arrays hold the strings only, the index is kept here  *)
(* to tell where a string of the result came from.  Fractions are computed *)
(* exactly, as quotients of integers.                                      *)

\* Math.floor(a / b) for a >= 0, b > 0
FloorDiv(a, b) == a \div b

\* sentences[i] of a JavaScript array
At(sentences, i) == sentences[i + 1]
\* sentences.slice(from, to)
Slice(sentences, from, to) == SubSeq(sentences, from + 1, to)

\* shortest trimmed length the post-processing filter keeps
MinSentenceChars == 5

\* what splitIntoSentences returns: the pieces of the forced split as they
\* are, the pieces of the other passes without those that are too short
splitIntoSentences(transcript) ==
  LET kept == IF transcript.forced
              THEN transcript.pieces
              ELSE SelectSeq(transcript.pieces,
                             LAMBDA s : s.trimmed >= MinSentenceChars)
  IN [k \in 1..Len(kept) |->
        [index |-> k - 1, text |-> kept[k].text, chars |-> kept[k].chars,
         points |-> kept[k].points]]

\* Math.ceil(text.length / 4), from the length of the text
estimateTokens(chars) == CeilDiv(chars, 4)

\* the characters of sentences from..to, summed by halves
RECURSIVE SumChars(_, _, _)
SumChars(sentences, from, to) ==
  IF from > to THEN 0
  ELSE IF from = to THEN sentences[from].chars
  ELSE LET mid == (from + to) \div 2
       IN SumChars(sentences, from, mid) + SumChars(sentences, mid + 1, to)

\* sentences.join(' ').length
JoinChars(sentences) ==
  IF sentences = <<>> THEN 0
  ELSE SumChars(sentences, 1, Len(sentences)) + Len(sentences) - 1

\* a chunk is the transcript itself or the join of some sentences
Whole == [whole |-> TRUE, sentences |-> <<>>]
Joined(sentences) == [whole |-> FALSE, sentences |-> sentences]

\* the loop of createChunksFromSentences from sentence k on
RECURSIVE Pack(_, _, _, _, _, _)
Pack(sentences, k, forcedChunkSize, chunks, currentChunk, currentTokenCount) ==
  IF k > Len(sentences)
  THEN IF Len(currentChunk) > 0 THEN Append(chunks, Joined(currentChunk))
       ELSE chunks
  ELSE LET sentenceTokens == estimateTokens(sentences[k].chars)
       IN IF /\ currentTokenCount + sentenceTokens > forcedChunkSize
             /\ Len(currentChunk) > 0
          THEN Pack(sentences, k + 1, forcedChunkSize,
                    Append(chunks, Joined(currentChunk)),
                    <<sentences[k]>>, sentenceTokens)
          ELSE Pack(sentences, k + 1, forcedChunkSize, chunks,
                    Append(currentChunk, sentences[k]),
                    currentTokenCount + sentenceTokens)

\* forcedChunkSize of createChunksFromSentences: the target size of a chunk
forcedChunkSizeOf(sentences, maxTokensPerChunk) ==
  LET forceChunks == Len(sentences) > 10
      totalTokens == estimateTokens(JoinChars(sentences))
  IN IF forceChunks
     THEN CeilDiv(totalTokens, Max(3, CeilDiv(totalTokens, maxTokensPerChunk)))
     ELSE maxTokensPerChunk

\* createChunksFromSentences without the loop: everything in one chunk
createChunksUnsplit(sentences, maxTokensPerChunk) == <<Joined(sentences)>>

createChunksFromSentences(sentences, maxTokensPerChunk) ==
  Pack(sentences, 1, forcedChunkSizeOf(sentences, maxTokensPerChunk),
       <<>>, <<>>, 0)

\* reductionFactor = max(1, totalTokens / (maxLength * 0.9)) is at least 1.5
SamplingNeeded(totalTokens, maxLength) == 20 * totalTokens >= 27 * maxLength

\* the sampling loop of the Uniform strategy from index i on
RECURSIVE UniformSample(_, _, _, _)
UniformSample(sentences, i, samplingInterval, windowSize) ==
  IF i >= Len(sentences) THEN <<>>
  ELSE (IF windowSize > 0 /\ i + 1 < Len(sentences) /\ samplingInterval > 2
        THEN <<At(sentences, i), At(sentences, i + 1)>>
        ELSE <<At(sentences, i)>>)
       \o UniformSample(sentences, i + samplingInterval, samplingInterval,
                        windowSize)

\* UniformSamplingStrategy.chunkTranscript
uniformChunkTranscript(transcript, maxLength) ==
  LET sentences == splitIntoSentences(transcript)
      totalTokens == estimateTokens(transcript.chars)
      windowSize == Min(3, FloorDiv(Len(sentences), 10))
      \* floor(n / (n / reductionFactor)), the floor of the reduction factor
      samplingInterval == Max(1, FloorDiv(10 * totalTokens, 9 * maxLength))
  IN IF Len(sentences) <= 1 THEN <<Whole>>
     ELSE IF ~SamplingNeeded(totalTokens, maxLength)
     THEN createChunksFromSentences(sentences, maxLength)
     ELSE createChunksFromSentences(
            UniformSample(sentences, 0, samplingInterval, windowSize), maxLength)

\* sentences.indexOf(s): the first index holding an equal string
indexOf(sentences, s) ==
  LET found == {k \in 1..Len(sentences) : sentences[k].text = s.text}
  IN IF found = {} THEN -1
     ELSE (CHOOSE k \in found : \A j \in found : k <= j) - 1

\* a stable sort of <<key, item>> pairs by ascending key, which is what
\* Array.prototype.sort does with a comparator that subtracts two keys
InsertPair(sorted, p) ==
  LET before == Cardinality({k \in 1..Len(sorted) : sorted[k][1] <= p[1]})
  IN SubSeq(sorted, 1, before) \o <<p>> \o SubSeq(sorted, before + 1, Len(sorted))
RECURSIVE SortPairs(_, _)
SortPairs(pairs, k) ==
  IF k = 0 THEN <<>> ELSE InsertPair(SortPairs(pairs, k - 1), pairs[k])
SortedByKey(pairs) ==
  LET sorted == SortPairs(pairs, Len(pairs))
  IN [k \in 1..Len(sorted) |-> sorted[k][2]]

\* sampledSentences.sort((a, b) => sentences.indexOf(a) - sentences.indexOf(b))
SortByIndexOf(sampledSentences, sentences) ==
  SortedByKey([k \in 1..Len(sampledSentences) |->
                 <<indexOf(sentences, sampledSentences[k]), sampledSentences[k]>>])

\* the middle loop of the Bookend strategy from index i on
RECURSIVE BookendMiddle(_, _, _, _)
BookendMiddle(sentences, i, middleEnd, samplingInterval) ==
  IF i >= middleEnd THEN <<>>
  ELSE IF samplingInterval > 2 /\ i + 1 < middleEnd
  THEN <<At(sentences, i), At(sentences, i + 1)>>
       \o BookendMiddle(sentences, i + 1 + samplingInterval, middleEnd,
                        samplingInterval)
  ELSE <<At(sentences, i)>>
       \o BookendMiddle(sentences, i + samplingInterval, middleEnd,
                        samplingInterval)

\* the sampledSentences of the Bookend strategy, sorted, when the reduction
\* factor 10 * totalTokens / (9 * maxLength) is at least 1.5
bookendSampled(sentences, totalTokens, maxLength) ==
  LET n == Len(sentences)
      totalSentencesToKeep == FloorDiv(9 * n * maxLength, 10 * totalTokens)
      bookendSize == FloorDiv(2 * totalSentencesToKeep, 5)
      middleSentencesToKeep == Max(0, totalSentencesToKeep - bookendSize * 2)
      middleStart == bookendSize
      middleEnd == n - bookendSize
      middleRange == middleEnd - middleStart
      beginning == Slice(sentences, 0, Min(bookendSize, n))
      middle ==
        IF middleSentencesToKeep > 0 /\ n > bookendSize * 2 /\ middleRange > 0
        THEN BookendMiddle(sentences, middleStart, middleEnd,
                           Max(1, FloorDiv(middleRange, middleSentencesToKeep)))
        ELSE <<>>
      ending == Slice(sentences, Max(0, n - bookendSize), n)
  IN SortByIndexOf(beginning \o middle \o ending, sentences)

\* the Bookend strategy without its early return for a single sentence
bookendAlwaysPacks(transcript, maxLength) ==
  createChunksFromSentences(splitIntoSentences(transcript), maxLength)

\* BookendSamplingStrategy.chunkTranscript
bookendChunkTranscript(transcript, maxLength) ==
  LET sentences == splitIntoSentences(transcript)
      totalTokens == estimateTokens(transcript.chars)
  IN IF Len(sentences) <= 1 THEN <<Whole>>
     ELSE IF ~SamplingNeeded(totalTokens, maxLength)
     THEN createChunksFromSentences(sentences, maxLength)
     ELSE createChunksFromSentences(
            bookendSampled(sentences, totalTokens, maxLength), maxLength)

\* the window loop of createLargerContextChunks from index i on; a window of
\* sentences is never blank, so every window is pushed
RECURSIVE Windows(_, _, _, _)
Windows(sentences, i, sentencesPerChunk, overlap) ==
  LET end == Min(i + sentencesPerChunk, Len(sentences))
  IN IF end >= Len(sentences)
     THEN <<Joined(Slice(sentences, i, end))>>
     ELSE <<Joined(Slice(sentences, i, end))>>
          \o Windows(sentences, i + (sentencesPerChunk - overlap),
                     sentencesPerChunk, overlap)

\* sentencesPerChunk and overlap of createLargerContextChunks
sentencesPerChunk(sentenceCount, numChunks) ==
  Max(5, CeilDiv(sentenceCount, numChunks))
\* overlapOf rounding down
overlapRoundedDown(perChunk) == FloorDiv(3 * perChunk, 20)
overlapOf(perChunk) == CeilDiv(3 * perChunk, 20)

\* createLargerContextChunks without the windows: everything in one chunk
createOneChunk(sentences, targetSize, minChunks) == <<Joined(sentences)>>

\* IntelligentSamplingStrategy.createLargerContextChunks; minChunks = 0
\* stands for the omitted argument
createLargerContextChunks(sentences, targetSize, minChunks) ==
  IF Len(sentences) <= 10 THEN <<Joined(sentences)>>
  ELSE LET totalTokens == estimateTokens(JoinChars(sentences))
           calculatedChunks == Max(1, CeilDiv(totalTokens, targetSize))
           numChunks == IF minChunks # 0 THEN Max(calculatedChunks, minChunks)
                        ELSE calculatedChunks
           perChunk == sentencesPerChunk(Len(sentences), numChunks)
       IN Windows(sentences, 0, perChunk, overlapOf(perChunk))

\* IntelligentSamplingStrategy.createForcedChunks
createForcedChunks(sentences, targetSize) ==
  LET totalTokens == estimateTokens(JoinChars(sentences))
      minChunks == Max(3, CeilDiv(totalTokens, targetSize))
  IN IF Len(sentences) > 10 /\ FloorDiv(Len(sentences), minChunks) >= 3
     THEN createLargerContextChunks(sentences, targetSize, minChunks)
     ELSE IF Len(sentences) > 5
     THEN createLargerContextChunks(sentences, targetSize, 2)
     ELSE createLargerContextChunks(sentences, targetSize, 0)

\* the score scoreSentences gives the sentence at an index, in half points:
\* the points of its position plus the points of its content
scoreOf(s, sentenceCount) ==
  s.points
  + (IF 20 * s.index < 3 * sentenceCount THEN 6
     ELSE IF 20 * s.index > 17 * sentenceCount THEN 5
     ELSE IF 5 * s.index > 2 * sentenceCount /\ 5 * s.index < 3 * sentenceCount
     THEN 2
     ELSE 0)

\* numSentencesToKeep = ceil(n * min(0.8, 2.0 / reductionFactor)) for the
\* reduction factor rfNum / rfDen
numSentencesToKeep(sentenceCount, rfNum, rfDen) ==
  IF 10 * rfDen >= 4 * rfNum THEN CeilDiv(4 * sentenceCount, 5)
  ELSE CeilDiv(2 * sentenceCount * rfDen, rfNum)

\* IntelligentSamplingStrategy.calculateImportanceThreshold: the score at
\* the cutoff of the sentences sorted by descending score
calculateImportanceThreshold(sentences, rfNum, rfDen) ==
  LET n == Len(sentences)
      keep == numSentencesToKeep(n, rfNum, rfDen)
      scores == {scoreOf(sentences[k], n) : k \in 1..n}
      AtLeast(v) == Cardinality({k \in 1..n : scoreOf(sentences[k], n) >= v})
      Above(v) == Cardinality({k \in 1..n : scoreOf(sentences[k], n) > v})
  IN IF keep >= n THEN 0
     ELSE CHOOSE v \in scores : AtLeast(v) >= keep /\ Above(v) < keep

\* the loop of extractImportantSegments from index i on
RECURSIVE Segments(_, _, _, _, _, _)
Segments(sentences, threshold, i, segments, currentSegment, inImportantSection) ==
  LET n == Len(sentences)
      item == At(sentences, i)
      isBeginningOrEnd == 20 * i < 3 * n \/ 20 * i > 17 * n
      isImportant == scoreOf(item, n) >= threshold
      context == IF inImportantSection THEN <<>> ELSE Slice(sentences, Max(0, i - 3), i)
      after == Slice(sentences, i + 1, Min(i + 3, n))
  IN IF i >= n
     THEN IF Len(currentSegment) > 0 THEN Append(segments, currentSegment)
          ELSE segments
     ELSE IF isImportant \/ isBeginningOrEnd
     THEN Segments(sentences, threshold, i + 1, segments,
                   currentSegment \o context \o <<item>>, TRUE)
     ELSE IF inImportantSection
     THEN Segments(sentences, threshold, i + 3,
                   Append(segments, currentSegment \o <<item>> \o after),
                   <<>>, FALSE)
     ELSE Segments(sentences, threshold, i + 1, segments, currentSegment, FALSE)

\* the top-scored sentences in index order, which extractImportantSegments
\* falls back to when it found no segment
topSentences(sentences, rfNum, rfDen) ==
  LET n == Len(sentences)
      byScore == SortedByKey([k \in 1..n |->
                                <<0 - scoreOf(sentences[k], n), sentences[k]>>])
      top == SubSeq(byScore, 1, Min(n, numSentencesToKeep(n, rfNum, rfDen)))
  IN SortedByKey([k \in 1..Len(top) |-> <<top[k].index, top[k]>>])

\* extractImportantSegments keeping the top-scored sentences only
extractTopSentences(sentences, rfNum, rfDen) ==
  <<topSentences(sentences, rfNum, rfDen)>>

\* IntelligentSamplingStrategy.extractImportantSegments
extractImportantSegments(sentences, rfNum, rfDen) ==
  LET threshold == calculateImportanceThreshold(sentences, rfNum, rfDen)
      segments == Segments(sentences, threshold, 0, <<>>, <<>>, FALSE)
  IN IF Len(segments) = 0 THEN <<topSentences(sentences, rfNum, rfDen)>>
     ELSE segments

\* importantSegments.flat()
RECURSIVE Flat(_, _)
Flat(segments, k) ==
  IF k = 0 THEN <<>> ELSE Flat(segments, k - 1) \o segments[k]

\* the constants of IntelligentSamplingStrategy.chunkTranscript
maxTokensPerChunk == 4000
minimumChunking == 3000
MaxTargetChunkSize == 1500

targetChunkSize(totalTokens) ==
  Min(MaxTargetChunkSize,
      FloorDiv(totalTokens, Max(3, CeilDiv(totalTokens, minimumChunking))))

\* the sampledSentences of the Intelligent strategy for a transcript of more
\* than minimumChunking tokens
intelligentSampled(sentences, totalTokens) ==
  LET num == totalTokens
      den == targetChunkSize(totalTokens) * CeilDiv(totalTokens, maxTokensPerChunk)
      \* reductionFactor = max(1.1, num / den)
      rfNum == IF 10 * num >= 11 * den THEN num ELSE 11
      rfDen == IF 10 * num >= 11 * den THEN den ELSE 10
      importantSegments == extractImportantSegments(sentences, rfNum, rfDen)
  IN Flat(importantSegments, Len(importantSegments))

\* IntelligentSamplingStrategy.chunkTranscript, which ignores maxLength
intelligentChunkTranscript(transcript, maxLength) ==
  LET sentences == splitIntoSentences(transcript)
      totalTokens == estimateTokens(transcript.chars)
  IN IF Len(sentences) <= 1 THEN <<Whole>>
     ELSE IF totalTokens <= minimumChunking
     THEN createForcedChunks(sentences, targetChunkSize(totalTokens))
     ELSE createForcedChunks(intelligentSampled(sentences, totalTokens),
                             targetChunkSize(totalTokens))

\* TranscriptChunkerNode.createStrategyFromName
createStrategyFromName(strategyName) ==
  IF strategyName \in {"uniform", "bookend", "intelligent"} THEN strategyName
  ELSE "intelligent"

\* strategy.chunkTranscript(transcript, maxLength)
chunkTranscript(strategy, transcript, maxLength) ==
  CASE strategy = "uniform" -> uniformChunkTranscript(transcript, maxLength)
    [] strategy = "bookend" -> bookendChunkTranscript(transcript, maxLength)
    [] strategy = "intelligent" -> intelligentChunkTranscript(transcript, maxLength)

\* new TranscriptChunkerNode(maxTranscriptLength, strategyName), about to be
\* handed a transcript
NewChunker(maxTranscriptLength, strategyName, transcript) ==
  [maxTranscriptLength |-> maxTranscriptLength,
   strategy |-> createStrategyFromName(strategyName),
   transcript |-> transcript, ran |-> FALSE, thrown |-> FALSE, chunks |-> <<>>]

\* TranscriptChunkerNode.exec
ChunkerExec ==
  /\ ~chunker.ran
  /\ IF chunker.transcript.chars = 0
     THEN chunker' = [chunker EXCEPT !.ran = TRUE, !.thrown = TRUE]
     ELSE chunker' = [chunker EXCEPT
            !.ran = TRUE,
            !.chunks = chunkTranscript(chunker.strategy, chunker.transcript,
                                       chunker.maxTranscriptLength)]
  /\ UNCHANGED <<now, tickMs, th, thOf, pc, wake, est, budget, failsLeft, recLog,
                 dayCalls, issueLog>>
  /\ UNCHANGED <<cfg, stage, loopIndex, chunkSummaries, shared, task, batches, svc>>

\* the callers of a run over n chunks: one per chunk and the reduce call,
\* all on the one GeminiService of the builder
AllocateCallers(n) ==
  /\ cfg' = [cfg EXCEPT !.chunkCount = n]
  /\ thOf' = [c \in 1..(n + 1) |-> 1]
  /\ pc' = [c \in 1..(n + 1) |-> "notStarted"]
  /\ wake' = [c \in 1..(n + 1) |-> 0]
  /\ est' = [c \in 1..(n + 1) |-> 1]
  /\ task' = [c \in 1..(n + 1) |-> NewTask]

\* ChunkStage storing the transcript as the only chunk, whatever the strategy
ChunkStageWhole ==
  /\ stage = "validated"
  /\ ~chunker.ran
  /\ chunker' = [chunker EXCEPT !.ran = TRUE, !.chunks = <<Whole>>]
  /\ shared' = [shared EXCEPT !.chunks = 1]
  /\ stage' = Entry(Successor("chunker", "default"))
  /\ AllocateCallers(1)
  /\ UNCHANGED <<now, tickMs, th, budget, failsLeft, recLog, dayCalls, issueLog,
                 loopIndex, chunkSummaries, batches, svc>>

\* TranscriptChunkerNode in a run: prep, exec with the chunks computed by the
\* strategy, and post, after which the Map stage has one call per chunk
ChunkStage ==
  /\ stage = "validated"
  /\ ~chunker.ran
  /\ IF chunker.transcript.chars = 0
     THEN /\ chunker' = [chunker EXCEPT !.ran = TRUE, !.thrown = TRUE]
          /\ shared' = [shared EXCEPT
               !.thrown = Thrown("No transcript available for chunking")]
          /\ stage' = "rejected"
          /\ UNCHANGED <<cfg, thOf, pc, wake, est, task>>
     ELSE LET chunks == chunkTranscript(chunker.strategy, chunker.transcript,
                                        chunker.maxTranscriptLength)
          IN /\ chunker' = [chunker EXCEPT !.ran = TRUE, !.chunks = chunks]
             /\ shared' = [shared EXCEPT !.chunks = Len(chunks)]
             /\ stage' = Entry(Successor("chunker", "default"))
             /\ AllocateCallers(Len(chunks))
  /\ UNCHANGED <<now, tickMs, th, budget, failsLeft, recLog, dayCalls, issueLog,
                 loopIndex, chunkSummaries, batches, svc>>

\* the transcripts tried

\* a transcript of the given pieces with extra characters outside them
Transcript(pieces, extra, forced) ==
  [chars |-> SumChars(pieces, 1, Len(pieces)) + extra, pieces |-> pieces,
   forced |-> forced]

\* the kinds of piece of the short transcripts: a fragment the filter drops,
\* two sentences, and a piece of the forced split
FragmentChars == 4
SentenceChars == 20
LongSentenceChars == 24
ForcedChars == 800
PieceKinds ==
  {[text |-> 1, chars |-> FragmentChars, trimmed |-> FragmentChars - 1,
    points |-> 0],
   [text |-> 2, chars |-> SentenceChars, trimmed |-> SentenceChars - 1,
    points |-> 0],
   [text |-> 3, chars |-> LongSentenceChars, trimmed |-> LongSentenceChars - 1,
    points |-> 0]}
ForcedKinds ==
  {[text |-> 4, chars |-> ForcedChars, trimmed |-> ForcedChars, points |-> 0]}
\* characters of the transcript outside the detected pieces
ExtraChars == 8
\* pieces of a short transcript: the first pass is kept only when it found
\* more than 5 sentences, the forced split may return any number
MinDetected == 6
MaxForced == 3
ShortTranscripts ==
  {Transcript(<<>>, 0, FALSE)}
  \cup {Transcript(p, x, FALSE) : p \in [1..MinDetected -> PieceKinds],
                                  x \in {0, ExtraChars}}
  \cup {Transcript(p, 0, TRUE) :
          p \in UNION {[1..n -> ForcedKinds] : n \in 1..MaxForced}}

\* transcripts of many sentences of one size, all different; the content of
\* every pattern-th sentence earns points
LongChars == 1000
SentenceSizes == {6, 7, 40, LongChars}
MinMany == 11
MaxMany == 14
MaxPattern == 4
ContentPoints == 3
ManyPieces(n, size, pattern) ==
  [k \in 1..n |->
     [text |-> k, chars |-> size, trimmed |-> size - 1,
      points |-> IF pattern > 0 /\ k % pattern = 0 THEN ContentPoints ELSE 0]]
LongTranscripts ==
  {Transcript(ManyPieces(n, size, pattern), x, FALSE) :
     n \in MinMany..MaxMany, size \in SentenceSizes,
     pattern \in 0..MaxPattern, x \in {0, ExtraChars}}

\* transcripts whose content earns points outside the first and the last
\* 15% of the sentences only (keywords, numbers, quotations), in every
\* sentence there or in all but every gap-th
KeywordPoints == 9
HeavySizes == {13, 14, 20}
MaxGap == 5
MiddleHeavyPieces(n, size, gap) ==
  [k \in 1..n |->
     [text |-> k, chars |-> size, trimmed |-> size - 1,
      points |-> IF /\ 20 * (k - 1) >= 3 * n
                    /\ 20 * (k - 1) <= 17 * n
                    /\ (gap = 0 \/ (k - 1) % gap # 0)
                 THEN KeywordPoints ELSE 0]]
MiddleHeavyTranscripts ==
  {Transcript(MiddleHeavyPieces(n, LongChars, gap), 0, FALSE) :
     n \in HeavySizes, gap \in {0, MaxGap}}

\* the transcripts of 50 short sentences that make at most 100 tokens: the
\* first k are long enough for the filter, the others are fragments
ScenarioSentences == 50
ScenarioSizes == {6, 7}
ScenarioRunSize == 7
ScenarioPieces(k, size) ==
  [j \in 1..ScenarioSentences |->
     IF j <= k
     THEN [text |-> j, chars |-> size, trimmed |-> size - 1, points |-> 0]
     ELSE [text |-> j, chars |-> FragmentChars, trimmed |-> FragmentChars - 1,
           points |-> 0]]
ScenarioTranscripts ==
  {Transcript(ScenarioPieces(k, size), x, FALSE) :
     k \in 0..ScenarioSentences, size \in ScenarioSizes, x \in {0, ExtraChars}}

\* the values of maxTranscriptLength tried: small ones, and the default of
\* the node
SmallLength == 20
MediumLength == 30
ScenarioLength == 100000
DefaultLength == 300000
MaxLengths == {SmallLength, MediumLength, ScenarioLength, DefaultLength}
SamplingMethods == {"uniform", "bookend", "intelligent"}

----------------------------------------------------------------------------
(* GeminiService.generateContent with its prompt and the text returned     *)

\* lengths of the prompts, the maxOutputTokens options and the lengths of
\* the texts the backend returns
PromptLengths == {0, 1, 4, 5}
OutputCaps == {0, 1}
TextLengths == {0, 3, 8}

\* line 195: Math.ceil(prompt.length / 4)
estimatedPromptTokens(promptChars) == CeilDiv(promptChars, 4)
\* line 196
estimatedTotalTokens(promptChars, maxOutputTokens) ==
  estimatedPromptTokens(promptChars) + maxOutputTokens

\* lines 194-199: generateContent(prompt, {maxOutputTokens}) up to the first
\* await of throttle
generateContentOf(c, promptChars, maxOutputTokens) ==
  /\ pc[c] = "idle"
  /\ budget > 0
  /\ budget' = budget - 1
  /\ est' = [est EXCEPT ![c] = estimatedTotalTokens(promptChars, maxOutputTokens)]
  /\ Resume(c, DailyPhase(th[thOf[c]], est'[c], now))
  /\ task' = [task EXCEPT ![c].promptChars = promptChars,
                          ![c].maxOutputTokens = maxOutputTokens]
  /\ UNCHANGED <<now, tickMs, thOf, failsLeft, recLog, dayCalls, issueLog>>
  /\ UNCHANGED <<cfg, chunker, svc, stage, loopIndex, chunkSummaries, shared, batches>>

\* lines 213-219: the backend returns a text of textChars characters;
\* recordApiCall(estimatedTotalTokens), and the text is returned
RespondText(c, textChars) ==
  /\ task[c].attemptCount = 0
  /\ Succeed(c, "idle")
  /\ task' = [task EXCEPT ![c].textChars = textChars]
  /\ UNCHANGED <<cfg, chunker, svc, stage, loopIndex, chunkSummaries, shared, batches>>

----------------------------------------------------------------------------
(* ServiceManager and the background services                              *)
(*                                                                         *)
(* One ServiceManager (getInstance returns the singleton) owns one         *)
(* VideoSummarizationService and one VideoDetectionService.  A timer made  *)
(* by setInterval is active from setInterval to clearInterval.              *)

\* initialize() and shutdown() calls of a behaviour, runs of the two periodic
\* jobs that are counted, and connection attempts that may fail
InitializeCalls == 3
ShutdownCalls == 2
MaxPolls == 2
MaxConnectFailures == 1

\* videos that may be queued, and processNextVideo invocations of a behaviour
MaxVideos == 2
MaxRuns == 3
Videos == 1..MaxVideos

\* no QueuedVideo document yet, and the local state of a processNextVideo
\* invocation at its first await (the findOne of line 345)
NoQueuedVideo ==
  [status |-> "none", error |-> FALSE, createdAt |-> 0, summaries |-> 0]
NewRun == [pc |-> "finding", video |-> 0, raised |-> FALSE]

\* the state the private constructor leaves
NewServiceManager ==
  [isInitialized |-> FALSE, connected |-> FALSE,
   isProcessing |-> FALSE, processingInterval |-> 0,
   isRunning |-> FALSE, checkInterval |-> 0,
   timers |-> {}, nextTimer |-> 1,
   polls |-> 0, checks |-> 0, failsLeft |-> MaxConnectFailures,
   init |-> [i \in 1..InitializeCalls |-> "idle"],
   down |-> [j \in 1..ShutdownCalls |-> "idle"],
   queue |-> [v \in Videos |-> NoQueuedVideo], runs |-> <<>>]

\* setInterval and clearInterval; a timer is known by its id and its job
setInterval(s, job) ==
  [s EXCEPT !.timers = @ \cup {[id |-> s.nextTimer, job |-> job]},
            !.nextTimer = @ + 1]
clearInterval(s, id) == [s EXCEPT !.timers = {t \in @ : t.id # id}]

\* startProcessing without the isProcessing test
startProcessingUnguarded(s) ==
  [setInterval(s, "processNextVideo") EXCEPT
     !.isProcessing = TRUE, !.polls = @ + 1, !.processingInterval = s.nextTimer,
     !.runs = Append(@, NewRun)]

\* VideoSummarizationService.startProcessing: one run at once, then the timer
startProcessing(s) ==
  IF s.isProcessing THEN s
  ELSE [setInterval(s, "processNextVideo") EXCEPT
          !.isProcessing = TRUE, !.polls = @ + 1,
          !.processingInterval = s.nextTimer,
          !.runs = Append(@, NewRun)]

\* VideoSummarizationService.stopProcessing
stopProcessing(s) ==
  IF ~s.isProcessing \/ s.processingInterval = 0 THEN s
  ELSE [clearInterval(s, s.processingInterval) EXCEPT
          !.isProcessing = FALSE, !.processingInterval = 0]

\* VideoDetectionService.start: one check at once, then the timer
start(s) ==
  IF s.isRunning THEN s
  ELSE [setInterval(s, "checkForNewVideos") EXCEPT
          !.isRunning = TRUE, !.checks = @ + 1, !.checkInterval = s.nextTimer]

\* VideoDetectionService.stop
stop(s) ==
  IF ~s.isRunning \/ s.checkInterval = 0 THEN s
  ELSE [clearInterval(s, s.checkInterval) EXCEPT
          !.isRunning = FALSE, !.checkInterval = 0]

serviceRest ==
  <<now, tickMs, th, thOf, pc, wake, est, budget, failsLeft, recLog, dayCalls,
    issueLog, cfg, stage, loopIndex, chunkSummaries, shared, task, batches, chunker>>

\* initialize(), lines 66-75: the isInitialized test, then connect() up to
\* its await; connect returns at once when MongoService is connected
initialize(i) ==
  /\ svc.init[i] = "idle"
  /\ svc' = [svc EXCEPT !.init[i] =
               IF svc.isInitialized THEN "already"
               ELSE IF svc.connected THEN "connected"
               ELSE "connecting"]
  /\ UNCHANGED serviceRest

\* lines 77-86: what initialize does once connect has returned
Started(s, i) ==
  [start(startProcessing(s)) EXCEPT !.isInitialized = TRUE, !.init[i] = "returned"]

\* mongoose.connect resolves: connect sets connected and returns, and
\* initialize goes on
ConnectResolved(i) ==
  /\ svc.init[i] = "connecting"
  /\ svc' = Started([svc EXCEPT !.connected = TRUE], i)
  /\ UNCHANGED serviceRest

\* connect had returned without waiting: initialize goes on
ConnectReturned(i) ==
  /\ svc.init[i] = "connected"
  /\ svc' = Started(svc, i)
  /\ UNCHANGED serviceRest

\* mongoose.connect rejects: connect and initialize throw, lines 87-90
ConnectRejected(i) ==
  /\ svc.init[i] = "connecting"
  /\ svc.failsLeft > 0
  /\ svc' = [svc EXCEPT !.failsLeft = @ - 1, !.init[i] = "threw"]
  /\ UNCHANGED serviceRest

\* shutdown(), lines 97-107: both services are stopped, then disconnect() up
\* to its await; disconnect returns at once when MongoService is not connected
shutdown(j) ==
  /\ svc.down[j] = "idle"
  /\ svc' = [stopProcessing(stop(svc)) EXCEPT !.down[j] =
               IF svc.connected THEN "disconnecting" ELSE "disconnected"]
  /\ UNCHANGED serviceRest

\* mongoose.disconnect resolves, or disconnect had returned without waiting:
\* lines 109-110
DisconnectResolved(j) ==
  /\ svc.down[j] \in {"disconnecting", "disconnected"}
  /\ svc' = [svc EXCEPT !.connected = IF svc.down[j] = "disconnecting"
                                      THEN FALSE ELSE @,
                        !.isInitialized = FALSE,
                        !.down[j] = "returned"]
  /\ UNCHANGED serviceRest

\* an active timer of startProcessing fires: processNextVideo is called
PollTimer(t) ==
  /\ t \in svc.timers
  /\ t.job = "processNextVideo"
  /\ svc.polls < MaxPolls
  /\ svc' = [svc EXCEPT !.polls = @ + 1, !.runs = Append(@, NewRun)]
  /\ UNCHANGED serviceRest

\* an active timer of start fires: checkForNewVideos is called
CheckTimer(t) ==
  /\ t \in svc.timers
  /\ t.job = "checkForNewVideos"
  /\ svc.checks < MaxPolls
  /\ svc' = [svc EXCEPT !.checks = @ + 1]
  /\ UNCHANGED serviceRest

----------------------------------------------------------------------------
(* The queue of videos and processNextVideo                                *)
(*                                                                         *)
(* The QueuedVideo collection holds at most one document per videoId (the  *)
(* index is unique).  An invocation of processNextVideo works on the       *)
(* document its findOne returned; a save writes the paths the invocation   *)
(* changed, whatever the document holds by then.                           *)

Runs == 1..Len(svc.runs)
PendingVideos(q) == {v \in Videos : q[v].status = "pending"}
QueuedCount(q) == Cardinality({v \in Videos : q[v].status # "none"})

\* findOne({status: 'pending'}).sort({createdAt: 1}): the oldest pending one
oldestPending(q) ==
  CHOOSE v \in PendingVideos(q) :
    \A w \in PendingVideos(q) : q[v].createdAt <= q[w].createdAt

\* a caller starts the summarization service (a route does when it is not
\* running), and a caller stops it
StartProcessingCall ==
  /\ Len(svc.runs) < MaxRuns
  /\ ~svc.isProcessing
  /\ svc' = startProcessing(svc)
  /\ UNCHANGED serviceRest

StopProcessingCall ==
  /\ svc.isProcessing
  /\ svc' = stopProcessing(svc)
  /\ UNCHANGED serviceRest

\* the timer of startProcessing fires
RunTimer(t) ==
  /\ Len(svc.runs) < MaxRuns
  /\ PollTimer(t)

\* queueVideoForSummarization(video, subscribers): a video with no document
\* gets one with status 'pending'; for a queued one only the subscribers,
\* which are not modelled, change
queueVideoForSummarization(v) ==
  /\ svc' = IF svc.queue[v].status = "none"
            THEN [svc EXCEPT !.queue[v] =
                    [NoQueuedVideo EXCEPT !.status = "pending",
                                          !.createdAt = QueuedCount(svc.queue) + 1]]
            ELSE svc
  /\ UNCHANGED serviceRest

\* lines 345-362: findOne resolves; with no pending video the invocation
\* returns, else it sets status on its document and calls save
FindResolved(r) ==
  /\ svc.runs[r].pc = "finding"
  /\ svc' = IF PendingVideos(svc.queue) = {}
            THEN [svc EXCEPT !.runs[r].pc = "returned"]
            ELSE [svc EXCEPT !.runs[r].pc = "marking",
                             !.runs[r].video = oldestPending(svc.queue)]
  /\ UNCHANGED serviceRest

\* lines 361-371: the save of status 'processing' is applied, and
\* summarizeVideo is called
MarkSaved(r) ==
  /\ svc.runs[r].pc = "marking"
  /\ svc' = [svc EXCEPT !.queue[svc.runs[r].video].status = "processing",
                        !.runs[r].pc = "summarizing"]
  /\ UNCHANGED serviceRest

\* lines 371-390: summarizeVideo resolves, and the summary's save is called
SummarizeResolved(r) ==
  /\ svc.runs[r].pc = "summarizing"
  /\ svc' = [svc EXCEPT !.runs[r].pc = "savingSummary"]
  /\ UNCHANGED serviceRest

\* lines 405-411: summarizeVideo rejects; the catch sets status and error on
\* its document and calls save
SummarizeRejected(r) ==
  /\ svc.runs[r].pc = "summarizing"
  /\ svc' = [svc EXCEPT !.runs[r].pc = "failing", !.runs[r].raised = TRUE]
  /\ UNCHANGED serviceRest

\* lines 390-396: the summary is saved; status 'completed' is set and saved
SummarySaved(r) ==
  /\ svc.runs[r].pc = "savingSummary"
  /\ svc' = [svc EXCEPT !.queue[svc.runs[r].video].summaries = @ + 1,
                        !.runs[r].pc = "completing"]
  /\ UNCHANGED serviceRest

\* the summary's save rejects (a summary is required): the same catch
SummarySaveRejected(r) ==
  /\ svc.runs[r].pc = "savingSummary"
  /\ svc' = [svc EXCEPT !.runs[r].pc = "failing", !.runs[r].raised = TRUE]
  /\ UNCHANGED serviceRest

\* lines 396-402: the save of status 'completed' is applied, and
\* notifySubscribers is called
CompletedSaved(r) ==
  /\ svc.runs[r].pc = "completing"
  /\ svc' = [svc EXCEPT !.queue[svc.runs[r].video].status = "completed",
                        !.runs[r].pc = "notifying"]
  /\ UNCHANGED serviceRest

\* notifySubscribers, which catches its own errors, returns
Notified(r) ==
  /\ svc.runs[r].pc = "notifying"
  /\ svc' = [svc EXCEPT !.runs[r].pc = "returned"]
  /\ UNCHANGED serviceRest

\* lines 409-412: the save of status 'failed' and of the error is applied
FailedSaved(r) ==
  /\ svc.runs[r].pc = "failing"
  /\ svc' = [svc EXCEPT !.queue[svc.runs[r].video].status = "failed",
                        !.queue[svc.runs[r].video].error = TRUE,
                        !.runs[r].pc = "returned"]
  /\ UNCHANGED serviceRest

----------------------------------------------------------------------------
(* Specifications                                                          *)

\* the shared store runYouTubeSummarizer creates, with what the user typed
NewStore(url) ==
  [videoUrl |-> url, videoId |-> FALSE, transcript |-> NoTranscript,
   chunks |-> 0, chunkSummaries |-> <<>>, summary |-> NoText,
   formattedSummary |-> NoFormatted, error |-> NoMessage, thrown |-> NoError]

NoStore == NewStore("youtube")

\* the shared store of a run once the chunker has stored n chunks
ChunkedStore(n) ==
  [NoStore EXCEPT !.videoId = TRUE,
                  !.transcript = [length |-> 2 * minTranscriptLength,
                                  words |-> MinWords,
                                  alnum |-> 2 * minTranscriptLength],
                  !.chunks = n]

\* the defaults of the application configuration
defaultConfig == [maxTranscriptLength |-> DefaultLength, samplingMethod |-> "intelligent"]

\* a chunker node that is not followed: the default node, without transcript
NoChunker ==
  NewChunker(defaultConfig.maxTranscriptLength, defaultConfig.samplingMethod,
             Transcript(<<>>, 0, FALSE))

InitThrottler(owner, calls, fails, tick, ticks, used) ==
  /\ tickMs = tick
  /\ now = StartTime(ticks, tick)
  /\ thOf = owner
  /\ \E d \in used :
       /\ th = [i \in {owner[c] : c \in DOMAIN owner} |-> UsedThrottler(now, d)]
       /\ dayCalls = [i \in {owner[c] : c \in DOMAIN owner} |-> d]
  /\ wake = [c \in DOMAIN owner |-> 0]
  /\ budget = calls
  /\ failsLeft = fails
  /\ recLog = <<>>
  /\ issueLog = <<>>
  /\ task = [c \in DOMAIN owner |-> NewTask]
  /\ loopIndex = 0
  /\ chunkSummaries = <<>>
  /\ batches = <<>>

InitCallers(kind, owner, calls, tick, ticks, used) ==
  /\ InitThrottler(owner, calls, calls, tick, ticks, used)
  /\ pc = [c \in DOMAIN owner |-> "idle"]
  /\ est = [c \in DOMAIN owner |-> 0]
  /\ cfg = [chunkCount |-> 0, maxConcurrent |-> 0, maxRetries |-> 0]
  /\ shared = NoStore
  /\ stage = kind
  /\ chunker = NoChunker
  /\ svc = NewServiceManager

\* one caller issuing throttle / recordApiCall pairs one after another
Init == InitCallers("direct", [c \in {1} |-> 1], MaxCalls, FineTick, StartTicks, {0})
Next ==
  \/ Tick
  \/ \E c \in Callers, e \in TokenCounts : throttle(c, e)
  \/ \E c \in Callers : WakeDaily(c)
  \/ \E c \in Callers : WakeReq(c)
  \/ \E c \in Callers : WakeTok(c)
  \/ \E c \in Callers, n \in TokenCounts : Record(c, n)
Spec == Init /\ [][Next]_vars

\* the same caller on the coarse clock, with a throttler that may have been
\* used before; a timer that is due fires, and the clock goes on
LiveCallers == {1}
InitLive ==
  InitCallers("direct", [c \in LiveCallers |-> 1], MaxCalls, CoarseTick, StartTicks,
              {0, maxDailyRequests - 1})
Timers ==
  /\ WF_vars(Tick)
  /\ \A c \in LiveCallers :
       WF_vars(WakeDaily(c)) /\ WF_vars(WakeReq(c)) /\ WF_vars(WakeTok(c))
SpecLive == InitLive /\ [][Next]_vars /\ Timers

\* callers of generateContent outside any retry loop
NextConc ==
  \/ Tick
  \/ \E c \in Callers, e \in TokenCounts : generateContent(c, e)
  \/ \E c \in Callers : WakeDaily(c)
  \/ \E c \in Callers : WakeReq(c)
  \/ \E c \in Callers : WakeTok(c)
  \/ \E c \in Callers : SendRequest(c)
  \/ \E c \in Callers : Respond(c)
  \/ \E c \in Callers : Reject(c)

\* two callers sharing one GeminiService and so one ApiThrottler, as the
\* chunks of one Map batch do
InitConc ==
  InitCallers("client", [c \in {1, 2} |-> 1], ConcCalls, FineTick, ConcStartTicks,
              {0, maxDailyRequests - 1})
SpecConc == InitConc /\ [][NextConc]_vars

\* YouTubeSummarizerFlowBuilder's constructor: every builder creates its own
\* GeminiService, whose constructor creates its own ApiThrottler; run r is
\* built by builder r
BuilderThrottler(r) == r

\* two pipeline runs, each built by its own YouTubeSummarizerFlowBuilder
InitRuns ==
  InitCallers("client", [r \in {1, 2} |-> BuilderThrottler(r)], ConcCalls,
              FineTick, ConcStartTicks, {0, maxDailyRequests - 1})
SpecRuns == InitRuns /\ [][NextConc]_vars

\* one caller of generateContent followed with its prompt, its options and
\* the text it gets back
ClientCalls == 3
InitClient ==
  InitCallers("client", [c \in {1} |-> 1], ClientCalls, FineTick, ConcStartTicks,
              {0, maxDailyRequests - 1})
NextClient ==
  \/ Tick
  \/ \E c \in Callers, p \in PromptLengths, m \in OutputCaps :
       generateContentOf(c, p, m)
  \/ \E c \in Callers : WakeDaily(c)
  \/ \E c \in Callers : WakeReq(c)
  \/ \E c \in Callers : WakeTok(c)
  \/ \E c \in Callers : SendRequest(c)
  \/ \E c \in Callers, n \in TextLengths : RespondText(c, n)
  \/ \E c \in Callers : Reject(c)
SpecClient == InitClient /\ [][NextClient]_vars

\* the process after the module of the ServiceManager has been loaded, with
\* initialize() and shutdown() called by whoever holds the singleton
InitServices ==
  InitCallers("direct", [c \in {1} |-> 1], 0, CoarseTick, ConcStartTicks, {0})
NextServices ==
  \/ \E i \in 1..InitializeCalls : initialize(i)
  \/ \E i \in 1..InitializeCalls : ConnectResolved(i)
  \/ \E i \in 1..InitializeCalls : ConnectReturned(i)
  \/ \E i \in 1..InitializeCalls : ConnectRejected(i)
  \/ \E j \in 1..ShutdownCalls : shutdown(j)
  \/ \E j \in 1..ShutdownCalls : DisconnectResolved(j)
  \/ \E t \in svc.timers : PollTimer(t)
  \/ \E t \in svc.timers : CheckTimer(t)
SpecServices == InitServices /\ [][NextServices]_vars

\* the summarization service alone, with videos being queued while it runs
NextQueue ==
  \/ StartProcessingCall
  \/ StopProcessingCall
  \/ \E t \in svc.timers : RunTimer(t)
  \/ \E v \in Videos : queueVideoForSummarization(v)
  \/ \E r \in Runs : FindResolved(r)
  \/ \E r \in Runs : MarkSaved(r)
  \/ \E r \in Runs : SummarizeResolved(r)
  \/ \E r \in Runs : SummarizeRejected(r)
  \/ \E r \in Runs : SummarySaved(r)
  \/ \E r \in Runs : SummarySaveRejected(r)
  \/ \E r \in Runs : CompletedSaved(r)
  \/ \E r \in Runs : Notified(r)
  \/ \E r \in Runs : FailedSaved(r)
SpecQueue == InitServices /\ [][NextQueue]_vars

\* one pipeline run from the end of the Chunk stage: Map, then Reduce, with
\* the nodes build() creates around one GeminiService
InitRun(counts, tick, ticks) ==
  /\ \E n \in counts, mc \in 1..MaxConcurrentCap, mr \in 1..MaxRetriesCap :
       /\ cfg = [chunkCount |-> n, maxConcurrent |-> mc, maxRetries |-> mr]
       /\ InitThrottler([c \in 1..(n + 1) |-> 1], 0, MaxFailures, tick, ticks,
                        {0, maxDailyRequests - 1})
       /\ pc = [c \in 1..(n + 1) |-> "notStarted"]
       /\ est = [c \in 1..(n + 1) |-> 1]
       /\ shared = ChunkedStore(n)
  /\ stage = "chunked"
  /\ chunker = NoChunker
  /\ svc = NewServiceManager

NextMap ==
  \/ Tick
  \/ MapExec
  \/ \E c \in Callers : WakeDaily(c)
  \/ \E c \in Callers : WakeReq(c)
  \/ \E c \in Callers : WakeTok(c)
  \/ \E c \in Callers : SendRequest(c)
  \/ \E c \in Callers : AttemptOk(c)
  \/ \E c \in Callers : AttemptFail(c)
  \/ \E c \in Callers : WakeBackoff(c)
  \/ BatchResolved
  \/ \E c \in Callers : BatchRejected(c)
  \/ ReduceResolved
  \/ ReduceRejected
\* up to MaxChunks chunks on a clock that steps by the whole window
InitMap == InitRun(1..MaxChunks, CoarseTick, ConcStartTicks)
SpecMap == InitMap /\ [][NextMap]_vars

\* a run over few chunks on the fine clock
InitRetry == InitRun(1..RetryChunks, FineTick, StartTicks)
SpecRetry == InitRetry /\ [][NextMap]_vars

\* a run of the Map and Reduce stages built with any maxConcurrent the
\* constructor and withOptions take without a check, 0 among them
InitOptions ==
  /\ \E n \in 1..OptionChunks, mc \in 0..MaxConcurrentCap, mr \in 1..MaxRetriesCap :
       /\ cfg = [chunkCount |-> n, maxConcurrent |-> mc, maxRetries |-> mr]
       /\ InitThrottler([c \in 1..(n + 1) |-> 1], 0, MaxFailures, CoarseTick,
                        ConcStartTicks, {0, maxDailyRequests - 1})
       /\ pc = [c \in 1..(n + 1) |-> "notStarted"]
       /\ est = [c \in 1..(n + 1) |-> 1]
       /\ shared = ChunkedStore(n)
  /\ stage = "chunked"
  /\ chunker = NoChunker
  /\ svc = NewServiceManager
SpecOptions == InitOptions /\ [][NextMap]_vars

\* a whole run of the flow build() returns, from the fetcher on
FlowChunks == 2
\* requests the backend fails in a run of the 50-sentence scenario
ScenarioFailures == 1
\* sentences long enough for the filter in the runs of that scenario
ScenarioRunCounts == {0, 10, 11, 14, 50}
InitFlow ==
  /\ \E n \in 1..FlowChunks, mc \in 1..MaxConcurrentCap, mr \in 1..MaxRetriesCap :
       /\ cfg = [chunkCount |-> n, maxConcurrent |-> mc, maxRetries |-> mr]
       /\ InitThrottler([c \in 1..(n + 1) |-> 1], 0, MaxFailures, CoarseTick,
                        ConcStartTicks, {0, maxDailyRequests - 1})
       /\ pc = [c \in 1..(n + 1) |-> "notStarted"]
       /\ est = [c \in 1..(n + 1) |-> 1]
  /\ \E url \in {"empty", "notYoutube", "youtube"} : shared = NewStore(url)
  /\ stage = "start"
  /\ chunker = NoChunker
  /\ svc = NewServiceManager

NextFlow ==
  \/ Tick
  \/ \E outcome \in FetchOutcomes : Fetch(outcome)
  \/ Validate
  \/ HandleError
  \/ Chunk
  \/ MapExec
  \/ \E c \in Callers : WakeDaily(c)
  \/ \E c \in Callers : WakeReq(c)
  \/ \E c \in Callers : WakeTok(c)
  \/ \E c \in Callers : SendRequest(c)
  \/ \E c \in Callers : AttemptOk(c)
  \/ \E c \in Callers : AttemptFail(c)
  \/ \E c \in Callers : WakeBackoff(c)
  \/ BatchResolved
  \/ \E c \in Callers : BatchRejected(c)
  \/ ReduceResolved
  \/ ReduceRejected
  \/ Format
SpecFlow == InitFlow /\ [][NextFlow]_vars

\* what the validator measures of a transcript
Measured(transcript) ==
  [length |-> transcript.chars, words |-> Len(transcript.pieces),
   alnum |-> transcript.chars - Len(transcript.pieces)]

\* a run from the end of the Validate stage on, over a transcript of 50
\* short sentences, with maxTranscriptLength = 100000 and the default
\* sampling method
ScenarioRuns ==
  {Transcript(ScenarioPieces(k, ScenarioRunSize), 0, FALSE) :
     k \in ScenarioRunCounts}
InitScenario ==
  /\ \E mr \in 1..MaxRetriesCap :
       cfg = [chunkCount |-> 0, maxConcurrent |-> MaxConcurrentCap,
              maxRetries |-> mr]
  /\ InitThrottler([c \in {1} |-> 1], 0, ScenarioFailures, CoarseTick,
                   ConcStartTicks, {0, maxDailyRequests - 1})
  /\ pc = [c \in {1} |-> "notStarted"]
  /\ est = [c \in {1} |-> 1]
  /\ \E t \in ScenarioRuns :
       /\ chunker = NewChunker(ScenarioLength, defaultConfig.samplingMethod, t)
       /\ shared = [NoStore EXCEPT !.videoId = TRUE, !.transcript = Measured(t)]
  /\ stage = "validated"
  /\ svc = NewServiceManager
NextScenario ==
  \/ Tick
  \/ ChunkStage
  \/ MapExec
  \/ \E c \in Callers : WakeDaily(c)
  \/ \E c \in Callers : WakeReq(c)
  \/ \E c \in Callers : WakeTok(c)
  \/ \E c \in Callers : SendRequest(c)
  \/ \E c \in Callers : AttemptOk(c)
  \/ \E c \in Callers : AttemptFail(c)
  \/ \E c \in Callers : WakeBackoff(c)
  \/ BatchResolved
  \/ \E c \in Callers : BatchRejected(c)
  \/ ReduceResolved
  \/ ReduceRejected
  \/ Format
SpecScenario == InitScenario /\ [][NextScenario]_vars

\* a run from the end of the Validate stage on with any sampling method:
\* over a transcript of long sentences, which a small maxTranscriptLength
\* makes the strategies sample, and over one of a few short sentences
PipelineTranscripts ==
  {Transcript(ManyPieces(MinMany, LongChars, 0), 0, FALSE),
   Transcript(ManyPieces(MinDetected, SentenceChars, 0), 0, FALSE)}
InitPipeline ==
  /\ \E mr \in 1..MaxRetriesCap :
       cfg = [chunkCount |-> 0, maxConcurrent |-> MaxConcurrentCap,
              maxRetries |-> mr]
  /\ InitThrottler([c \in {1} |-> 1], 0, ScenarioFailures, CoarseTick,
                   ConcStartTicks, {0, maxDailyRequests - 1})
  /\ pc = [c \in {1} |-> "notStarted"]
  /\ est = [c \in {1} |-> 1]
  /\ \E t \in PipelineTranscripts, m \in {SmallLength, DefaultLength},
        name \in SamplingMethods :
       /\ chunker = NewChunker(m, name, t)
       /\ shared = [NoStore EXCEPT !.videoId = TRUE, !.transcript = Measured(t)]
  /\ stage = "validated"
  /\ svc = NewServiceManager
SpecPipeline == InitPipeline /\ [][NextScenario]_vars

\* the chunker node alone: a node built with some maxTranscriptLength and
\* sampling method is handed some transcript
InitChunk ==
  /\ InitThrottler([c \in {1} |-> 1], 0, 0, CoarseTick, ConcStartTicks, {0})
  /\ pc = [c \in {1} |-> "idle"]
  /\ est = [c \in {1} |-> 0]
  /\ cfg = [chunkCount |-> 0, maxConcurrent |-> 0, maxRetries |-> 0]
  /\ shared = NoStore
  /\ stage = "validated"
  /\ svc = NewServiceManager
  /\ \/ \E t \in ShortTranscripts \cup LongTranscripts \cup MiddleHeavyTranscripts,
           m \in MaxLengths,
           name \in SamplingMethods :
          chunker = NewChunker(m, name, t)
     \/ \E t \in ScenarioTranscripts, m \in MaxLengths :
          chunker = NewChunker(m, defaultConfig.samplingMethod, t)
NextChunk == ChunkerExec
SpecChunk == InitChunk /\ [][NextChunk]_vars

----------------------------------------------------------------------------
(* Observations                                                            *)

\* calls recorded on throttler t in the trailing 60 s window (now - 60 s, now]
WindowCount(t) ==
  Cardinality({i \in 1..Len(recLog) :
                 recLog[i][2] = t /\ recLog[i][1] > now - Window})

\* tokens recorded on throttler t in the trailing 60 s window
TokensInWindow(t) ==
  Cardinality({i \in 1..Len(th[t].tokenQueue) :
                 th[t].tokenQueue[i] > now - Window})

----------------------------------------------------------------------------
(* Claims                                                                  *)

\* C1: with throttle / recordApiCall pairs issued one after another on one
\* ApiThrottler, the calls recorded in any trailing 60 s window never exceed
\* requestsPerMinute.
C1_WindowCap == \A t \in DOMAIN th : WindowCount(t) <= requestsPerMinute

\* the window is full and throttle holds the next call back
C1_Witness ==
  /\ pc[1] = "waitReq"
  /\ WindowCount(1) = requestsPerMinute

\* C2: with throttle / recordApiCall pairs on one ApiThrottler, the calls
\* recorded between two consecutive local midnights never exceed
\* maxDailyRequests.
C2_DailyCap ==
  \A t \in DOMAIN th : dayCalls[t] <= maxDailyRequests

\* C3: when several callers share one ApiThrottler, no interleaving brings the
\* requests recorded in a trailing 60 s window above requestsPerMinute or the
\* daily counter above maxDailyRequests.
C3_NoJointOvershoot ==
  \A t \in DOMAIN th :
    /\ WindowCount(t) <= requestsPerMinute
    /\ th[t].dailyRequests <= maxDailyRequests

\* calls recorded in the process, on any throttler, in the trailing window
ProcessWindowCount ==
  Cardinality({i \in 1..Len(recLog) : recLog[i][1] > now - Window})

\* C5: all generative calls of the process go through one shared throttle
\* window: the calls two concurrent pipeline runs record together in any
\* trailing 60 s window never exceed requestsPerMinute.
C5_SharedWindow == ProcessWindowCount <= requestsPerMinute

\* what throttle promises caller c when it returns
SafeToIssue(c) ==
  /\ WindowCount(thOf[c]) < requestsPerMinute
  /\ th[thOf[c]].dailyRequests < maxDailyRequests
  /\ TokensInWindow(thOf[c]) + est[c] <= tokensPerMinute

\* C6: at the instant throttle(est) returns, fewer than requestsPerMinute
\* requests are recorded in the trailing 60 s, the daily counter is below
\* maxDailyRequests, and the tokens recorded in the trailing 60 s plus est do
\* not exceed tokensPerMinute.
C6_SafeAtReturn ==
  [][\A c \in Callers :
       (pc[c] # "passed" /\ pc'[c] = "passed") => SafeToIssue(c)']_vars

\* requests sent to the backend through throttler t in the trailing window
IssuedInWindow(t) ==
  Cardinality({i \in 1..Len(issueLog) :
                 issueLog[i][2] = t /\ issueLog[i][1] > now - Window})

\* C4: in any pipeline run, the requests issued to the generative backend in
\* any trailing 60 s window never exceed the configured requests-per-minute
\* limit, whatever mix of successful, failed and retried attempts occurs.
C4_IssueCap == \A t \in DOMAIN th : IssuedInWindow(t) <= requestsPerMinute

\* C7: a chunk summarization or reduce call whose backend fails exactly k
\* times, k < maxRetries, and then succeeds makes exactly k+1 attempts and
\* returns the text of the successful attempt; a run whose calls all
\* recovered shows no error to its caller.
C7_RecoveredRetries ==
  /\ \A c \in Callers :
       /\ pc[c] = "returned" =>
            /\ task[c].failed < cfg.maxRetries
            /\ task[c].sent = task[c].failed + 1
            /\ task[c].result = BackendText(c, task[c].failed + 1)
       /\ (pc[c] = "threw" => task[c].failed >= cfg.maxRetries)
  /\ (stage = "reduced" =>
        /\ shared.thrown = NoError
        /\ shared.summary = BackendText(ReducerTask, task[ReducerTask].failed + 1))

\* a chunk and the reduce call both recovered from failures
C7_Witness ==
  /\ stage = "reduced"
  /\ task[ReducerTask].failed = 1
  /\ \E c \in Chunks : task[c].failed = cfg.maxRetries - 1 /\ task[c].failed > 0

\* C8: a chunk summarization or reduce call whose backend always fails makes
\* exactly maxRetries attempts and then fails with the error raised by the
\* last attempt.
C8_ExhaustedRetries ==
  /\ \A c \in Callers :
       pc[c] = "threw" =>
         /\ task[c].sent = cfg.maxRetries
         /\ task[c].failed = cfg.maxRetries
         /\ task[c].lastError = Wrapped(BackendError(c, cfg.maxRetries))
  /\ (stage = "rejected" =>
        \E c \in Callers :
          /\ pc[c] = "threw"
          /\ shared.thrown = Wrapped(BackendError(c, cfg.maxRetries)))

\* a chunk exhausted three attempts and the run was rejected with its error
C8_Witness ==
  /\ stage = "rejected"
  /\ cfg.maxRetries = MaxRetriesCap
  /\ \E c \in Chunks : pc[c] = "threw" /\ shared.thrown = task[c].lastError

\* C8 for the reduce call
C8_WitnessReduce ==
  /\ stage = "rejected"
  /\ cfg.maxRetries > 1
  /\ pc[ReducerTask] = "threw"

\* chunk summarizations started and not yet finished
InFlight == {c \in Chunks : pc[c] \notin {"notStarted", "returned", "threw"}}

\* min(maxConcurrent, max(2, ceil(6 / chunkCount))), as the claims state it
ClaimedConcurrency ==
  LET perChunk == IF cfg.chunkCount >= 6 THEN 1
                  ELSE IF cfg.chunkCount >= 3 THEN 2
                  ELSE IF cfg.chunkCount = 2 THEN 3 ELSE 6
      atLeastTwo == IF perChunk < 2 THEN 2 ELSE perChunk
  IN IF cfg.maxConcurrent < atLeastTwo THEN cfg.maxConcurrent ELSE atLeastTwo

\* C9: at every instant of the Map stage, the chunk summarizations in flight
\* (retries and backoff sleeps included) number at most
\* min(maxConcurrent, max(2, ceil(6 / chunkCount))).
C9_BoundedInFlight == Cardinality(InFlight) <= ClaimedConcurrency

\* a full batch of two is in flight, one of them sleeping in its backoff
C9_Witness ==
  /\ stage = "map"
  /\ Cardinality(InFlight) = ClaimedConcurrency
  /\ ClaimedConcurrency >= 2
  /\ \E c \in InFlight : pc[c] = "backoff"

\* C10: the Map stage processes chunks in consecutive batches of
\* actualConcurrency chunks (the last may be smaller), ceil(chunkCount /
\* actualConcurrency) in all, and starts no chunk of a batch before every
\* chunk of the previous batch has finished; 6 chunks with maxConcurrent = 3
\* give 3 batches of 2.
C10_Batches ==
  LET ac == ClaimedConcurrency
      n == cfg.chunkCount
      started == UNION {batches[k][1]..batches[k][2] : k \in 1..Len(batches)}
  IN /\ \A k \in 1..Len(batches) :
          /\ batches[k][1] = (k - 1) * ac + 1
          /\ batches[k][2] = IF k * ac < n THEN k * ac ELSE n
          /\ k < Len(batches) =>
               \A c \in batches[k][1]..batches[k][2] : pc[c] = "returned"
     /\ \A c \in Chunks : c \notin started => pc[c] = "notStarted"
     /\ (stage \in {"reduce", "reduced"} =>
           /\ Len(batches) * ac >= n
           /\ (Len(batches) - 1) * ac < n)
     /\ (n = 6 /\ cfg.maxConcurrent = 3 /\ stage \in {"reduce", "reduced"} =>
           batches = << <<1, 2>>, <<3, 4>>, <<5, 6>> >>)

\* the Map stage of 6 chunks with maxConcurrent = 3 has completed
C10_Witness ==
  /\ cfg.chunkCount = 6
  /\ cfg.maxConcurrent = 3
  /\ stage = "reduce"
  /\ Len(batches) = 3

\* the Map stage has succeeded: exec returned and post has stored its array
MapSucceeded == stage # "map" /\ \A c \in Chunks : pc[c] = "returned"

\* C11: when the Map stage succeeds, chunkSummaries has the same length as
\* chunks and chunkSummaries[i] is the summary produced for chunks[i], for
\* every index i, whatever order the summarizations of a batch finish in.
C11_IndexAligned ==
  MapSucceeded =>
    /\ Len(shared.chunkSummaries) = cfg.chunkCount
    /\ \A i \in Chunks :
         /\ shared.chunkSummaries[i].task = i
         /\ shared.chunkSummaries[i] = task[i].result

\* the Map stage succeeded over several batches and, in the last one, the
\* later chunk returned before the earlier one
C11_Witness ==
  /\ MapSucceeded
  /\ Len(batches) >= 2
  /\ \E c, d \in CurrentBatch : c < d /\ task[c].order > task[d].order

\* C12: no partial result is emitted: if a chunk's summarization or the
\* reduce call fails after exhausting its retries, the run ends with summary
\* and formattedSummary unset, and chunkSummaries is never stored with only
\* some of the chunks summarized.
C12_NoPartialResult ==
  /\ Len(shared.chunkSummaries) \in {0, cfg.chunkCount}
  /\ (\E c \in Callers : pc[c] = "threw") =>
       /\ stage \in {"map", "reduce", "rejected"}
       /\ shared.summary = NoText
       /\ shared.formattedSummary = NoFormatted

\* every chunk was summarized, then the reduce call exhausted its retries
C12_Witness ==
  /\ stage = "rejected"
  /\ pc[ReducerTask] = "threw"
  /\ cfg.chunkCount = FlowChunks
  /\ Len(shared.chunkSummaries) = cfg.chunkCount

\* the run has ended on a failure
Failed == stage \in {"rejected", "error"}

\* C13: whenever a stage fails, the pipeline halts, no later stage executes,
\* and the failure is recorded in the error field of the shared store as a
\* message for that failure.
C13_FailureRecorded ==
  Failed =>
    /\ shared.error # NoMessage
    /\ shared.formattedSummary = NoFormatted

\* the transcripts the claims say Validate rejects, and the reasons that apply
ClaimRejects(t) ==
  \/ t.length = 0
  \/ t.length < minTranscriptLength
  \/ t.words < MinWords
  \/ 2 * t.alnum < t.length
ClaimReasons(t) ==
  {r \in {"No transcript found", "Transcript is too short",
          "Transcript has too few words", "Transcript appears to be low quality"} :
     \/ r = "No transcript found" /\ t.length = 0
     \/ r = "Transcript is too short" /\ t.length < minTranscriptLength
     \/ r = "Transcript has too few words" /\ t.words < MinWords
     \/ r = "Transcript appears to be low quality" /\ 2 * t.alnum < t.length}

\* the fetcher stored a transcript and the validator has run on it
ValidateRan ==
  /\ stage \notin {"start", "fetched"}
  /\ shared.thrown \notin {Thrown("No video ID available for transcript fetching"),
                           Thrown("Failed to fetch transcript for video ID")}

\* C14: if Validate rejects the transcript (absent, shorter than the minimum
\* character count, fewer than 20 words, or alphanumeric ratio below 0.5),
\* the run goes to the Error terminal state: Chunk, MapSummarize, Reduce and
\* Format never execute, no generative call is made, and the error message
\* carries the rejection reason.
C14_RejectedHalts ==
  (ValidateRan /\ ClaimRejects(shared.transcript)) =>
    /\ stage \in {"invalid", "error"}
    /\ shared.chunks = 0
    /\ batches = <<>>
    /\ shared.chunkSummaries = <<>>
    /\ shared.summary = NoText
    /\ shared.formattedSummary = NoFormatted
    /\ issueLog = <<>>
    /\ \A c \in Callers : pc[c] = "notStarted" /\ task[c].sent = 0
    /\ shared.error.reason \in ClaimReasons(shared.transcript)
    /\ (stage = "error" => shared.error.prefix # "none")

\* a transcript of sufficient length and word count was rejected for its
\* quality and the run ended in the error handler
C14_Witness ==
  /\ stage = "error"
  /\ shared.transcript.length >= minTranscriptLength
  /\ shared.transcript.words >= MinWords
  /\ shared.error.reason = "Transcript appears to be low quality"

\* the stages in the order the claims give them, by the position of the run
\* before each and after the last
StageOrder ==
  <<"start", "fetched", "validated", "chunked", "map", "reduce", "reduced",
    "formatted">>

\* C15: in every run the stages execute in the order Fetch, Validate, Chunk,
\* MapSummarize, Reduce, Format, each at most once, and a stage executes only
\* after every stage before it completed successfully; the only branch is
\* Validate's failure edge to the Error terminal state.
C15_StageOrder ==
  [][stage' # stage =>
       \/ \E k \in 1..(Len(StageOrder) - 1) :
            stage = StageOrder[k] /\ stage' = StageOrder[k + 1]
       \/ stage = "fetched" /\ stage' = "invalid"
       \/ stage = "invalid" /\ stage' = "error"
       \/ stage \in {"start", "validated", "map", "reduce", "reduced"}
            /\ stage' = "rejected"]_vars

\* a run went through every stage, with a retry on the way
C15_Witness ==
  /\ stage = "formatted"
  /\ cfg.chunkCount = FlowChunks
  /\ \E c \in Callers : task[c].failed > 0

\* the sentences the strategy of the chunker detected in its transcript
Detected == splitIntoSentences(chunker.transcript)
\* exec has returned the chunks of a transcript
Chunked == chunker.ran /\ ~chunker.thrown

\* C16: whenever the sentence detection finds at most one sentence in the
\* transcript, the strategy (Uniform, Bookend or Intelligent) returns the
\* one-element list holding the transcript itself, whatever maxLength is
C16_SingleSentenceWhole ==
  Chunked /\ Len(Detected) <= 1 => chunker.chunks = <<Whole>>
\* the filter left one sentence of a transcript of several pieces, and the
\* Bookend strategy has returned the transcript as its only chunk
C16_Witness ==
  /\ Chunked
  /\ chunker.strategy = "bookend"
  /\ chunker.maxTranscriptLength = SmallLength
  /\ Len(chunker.transcript.pieces) = MinDetected
  /\ Len(Detected) = 1
  /\ chunker.chunks = <<Whole>>

\* the sentences of the returned chunks, read in chunk order
Returned ==
  Flat([c \in 1..Len(chunker.chunks) |-> chunker.chunks[c].sentences],
       Len(chunker.chunks))
\* the positions of Returned that hold a sentence for the first time
FirstTime ==
  {k \in 1..Len(Returned) :
     \A j \in 1..(k - 1) : Returned[j].index # Returned[k].index}

\* C17: for every strategy and every transcript, repeated sentence texts
\* included, the sentences of the returned chunks read in chunk order,
\* repetitions of a sentence left out, come in the order of the transcript:
\* their original indices never decrease
C17_OriginalOrder ==
  Chunked =>
    \A a, b \in FirstTime : a < b => Returned[a].index <= Returned[b].index

\* the Intelligent strategy was handed a transcript of at most
\* minimumChunking estimated tokens with more than 10 detected sentences
SmallManySentences ==
  /\ Chunked
  /\ chunker.strategy = "intelligent"
  /\ estimateTokens(chunker.transcript.chars) <= minimumChunking
  /\ Len(Detected) > 10

ChunkStageDone == chunker.ran /\ ~chunker.thrown /\ stage # "validated"
\* the run has passed the Reduce stage
Reduced == stage \in {"reduced", "formatted"}

\* C19 as stated: a transcript of 50 short sentences of at most 100
\* estimated tokens, chunked with maxLength = 100000 and the default sampling
\* method, gives exactly 1 chunk, and the run makes exactly 1 chunk-summary
\* call and 1 reduce call
C19_OneChunkOneCall ==
  ChunkStageDone =>
    /\ cfg.chunkCount = 1
    /\ Reduced /\ (\A c \in Callers : task[c].failed = 0) =>
         \A c \in Callers : task[c].sent = 1

\* C19, amended: that transcript gives exactly 1 chunk when at most 10 of
\* its sentences are detected (5 characters or more once trimmed) and at
\* least 3 chunks when more are; a run that passes Reduce has made, for every
\* chunk and for the reduce call, one call plus one per failed attempt
C19_ChunksFollowDetection ==
  ChunkStageDone =>
    /\ Len(Detected) <= 10 => cfg.chunkCount = 1
    /\ Len(Detected) > 10 => cfg.chunkCount >= 3
    /\ Reduced => \A c \in Callers : task[c].sent = task[c].failed + 1
\* all 50 sentences were detected, the transcript was cut into 5 chunks and
\* the run was formatted after 5 chunk-summary calls and 1 reduce call
C19_Witness ==
  /\ stage = "formatted"
  /\ Len(Detected) = ScenarioSentences
  /\ cfg.chunkCount = 5
  /\ \A c \in Callers : task[c].sent = 1

\* the Bookend strategy sampled the sentences of the transcript: more than
\* one was detected and the reduction factor is at least 1.5
BookendSampling ==
  /\ Chunked
  /\ chunker.strategy = "bookend"
  /\ Len(Detected) > 1
  /\ SamplingNeeded(estimateTokens(chunker.transcript.chars),
                    chunker.maxTranscriptLength)
\* the original indices of the sentences in the returned chunks
ReturnedIndices == {Returned[k].index : k \in 1..Len(Returned)}

\* C20: whenever the Bookend strategy samples, the first and the last
\* detected sentence of the transcript are both among the sampled sentences
C20_BookendsKept ==
  BookendSampling => {0, Len(Detected) - 1} \subseteq ReturnedIndices

\* C21: a request reaches the backend only as the step that follows the
\* return of throttle in the same attempt: the caller was at the point where
\* throttle has returned, and the requests it has sent are as many as the
\* attempts (and so the throttle calls) it has started.
C21_ThrottledBeforeSend ==
  [][\A c \in Callers :
       (pc'[c] = "inflight" /\ pc[c] # "inflight")
         => /\ pc[c] = "passed"
            /\ task'[c].sent = task[c].sent + 1
            /\ task'[c].sent = task[c].attemptCount]_vars

\* a retry is at the backend, after the first attempt of the same call was
\* there and failed
C21_Witness ==
  \E c \in Callers :
    /\ pc[c] = "inflight"
    /\ task[c].attemptCount >= 2
    /\ task[c].sent = task[c].attemptCount
    /\ task[c].failed = task[c].sent - 1

\* a chunk whose retry loop has thrown: all its attempts failed
FailedTerminally == {c \in Chunks : pc[c] = "threw"}

\* C22: once the retry loop of a chunk has thrown, no further batch is
\* started, no chunk that was not started is started, and the reducer is
\* never started; a chunk of the same batch whose request is at the backend is
\* not cancelled: its response is still taken, and it may return its summary.
C22_FailureStopsTheStage ==
  /\ [][FailedTerminally # {} =>
          /\ batches' = batches
          /\ stage' \in {"map", "rejected"}
          /\ pc'[ReducerTask] = "notStarted"
          /\ \A d \in Chunks : pc[d] = "notStarted" => pc'[d] = "notStarted"]_vars
  /\ [](\A d \in Chunks :
          (FailedTerminally # {} /\ pc[d] = "inflight") => ENABLED AttemptOk(d))

\* exec has thrown for a failed chunk while another chunk of the same batch
\* is at the backend and a later batch is waiting
C22_Witness ==
  /\ stage = "rejected"
  /\ \E c \in FailedTerminally, d \in CurrentBatch :
       /\ c \in CurrentBatch
       /\ pc[d] = "inflight"
  /\ \E d \in Chunks : pc[d] = "notStarted"

\* the attempt of a call that is under way: started and neither failed nor
\* given up
AttemptOpen(c) ==
  pc[c] \in {"waitDaily", "waitReq", "waitTok", "passed", "inflight", "returned"}

\* C23: the attempts a chunk has made are its own failed attempts plus the
\* attempt under way, whatever happened to the other chunks; a failure of one
\* chunk leaves the counter of every other chunk as it was; a chunk gives up
\* only after maxRetries failures of its own, and after fewer failures its
\* next step is a new attempt.
C23_OwnAttemptCounter ==
  /\ [](\A c \in Chunks :
          /\ task[c].attemptCount =
               task[c].failed + (IF AttemptOpen(c) THEN 1 ELSE 0)
          /\ task[c].attemptCount <= cfg.maxRetries
          /\ pc[c] = "threw" => task[c].failed = cfg.maxRetries)
  /\ [][\A c \in Chunks :
          /\ task'[c].failed > task[c].failed =>
               \A d \in Chunks \ {c} : task'[d].attemptCount = task[d].attemptCount
          /\ (pc[c] = "backoff" /\ pc'[c] # "backoff"
                /\ task[c].failed < cfg.maxRetries) =>
               task'[c].attemptCount = task[c].attemptCount + 1]_vars

\* two chunks of the first batch have both failed and returned on their last
\* attempt, and a chunk of a later batch is on its last attempt after a
\* failure of its own
C23_Witness ==
  /\ cfg.maxRetries >= 2
  /\ Len(batches) >= 2
  /\ \E c \in batches[1][1]..batches[1][2], e \in batches[1][1]..batches[1][2] :
       /\ c # e
       /\ task[c].failed >= 1
       /\ task[e].failed >= 1
  /\ \E d \in CurrentBatch :
       /\ task[d].failed >= 1
       /\ task[d].attemptCount = cfg.maxRetries
       /\ pc[d] = "inflight"

\* the requests of a run that have reached the backend
CallsIssued ==
  Cardinality({x \in (DOMAIN task) \X (1..MaxRetriesCap) : x[2] <= task[x[1]].sent})

\* no request of the run has failed
NeverFailed == \A c \in DOMAIN task : task[c].failed = 0

\* C24: while the backend has not failed, no call is made twice; the reduce
\* call starts only once every chunk has returned its summary after one
\* call and all n summaries are stored; and a run that has passed Reduce has
\* made n + 1 calls: one per chunk and one for the reduce.
C24_OneCallEach ==
  NeverFailed =>
    /\ \A c \in DOMAIN task : task[c].sent <= 1
    /\ pc[ReducerTask] # "notStarted" =>
         /\ \A c \in Chunks : pc[c] = "returned" /\ task[c].sent = 1
         /\ Len(shared.chunkSummaries) = cfg.chunkCount
    /\ stage = "reduced" =>
         /\ task[ReducerTask].sent = 1
         /\ CallsIssued = cfg.chunkCount + 1

\* a run over several batches has passed Reduce without any failure
C24_Witness ==
  /\ NeverFailed
  /\ stage = "reduced"
  /\ Len(batches) >= 2
  /\ cfg.chunkCount = MaxChunks
  /\ CallsIssued = MaxChunks + 1

\* C25: the step in which the a-th attempt of a call fails sets a timer of
\* 2^a seconds (2 s, 4 s, 8 s), the call does nothing before the timer has
\* fired, and a call gives up only out of the sleep that follows its
\* maxRetries-th failed attempt, 2^maxRetries seconds after that attempt
\* failed at the earliest.
C25_BackoffDoubles ==
  [][\A c \in Callers :
       /\ task'[c].failed # task[c].failed =>
            /\ task'[c].failed = task[c].failed + 1
            /\ pc'[c] = "backoff"
            /\ wake'[c] = now + Pow2(task'[c].failed) * 1000
            /\ task'[c].failed = 1 => wake'[c] = now + 2000
            /\ task'[c].failed = 2 => wake'[c] = now + 4000
            /\ task'[c].failed = 3 => wake'[c] = now + 8000
       /\ (pc[c] = "backoff" /\ pc'[c] # "backoff") => now >= wake[c]
       /\ (pc[c] # "threw" /\ pc'[c] = "threw") =>
            /\ pc[c] = "backoff"
            /\ task[c].failed = cfg.maxRetries
            /\ wake[c] - Pow2(cfg.maxRetries) * 1000 < now
            /\ now >= wake[c]]_vars

\* the last attempt the options allow has failed and the call sleeps
C25_Witness ==
  \E c \in Callers :
    /\ pc[c] = "backoff"
    /\ cfg.maxRetries >= 2
    /\ task[c].failed = cfg.maxRetries
    /\ wake[c] > now

\* the step in which caller c gets its text back
Answered(c) == pc[c] = "inflight" /\ pc'[c] = "idle" /\ Len(recLog') > Len(recLog)

\* what the step has appended to the two queues of the throttler of c
RequestsRecorded(c) ==
  Len(th'[thOf[c]].requestQueue) - Len(th[thOf[c]].requestQueue)
TokensRecorded(c) ==
  Len(th'[thOf[c]].tokenQueue) - Len(th[thOf[c]].tokenQueue)

\* C26: the step in which a call succeeds records one call in the throttler,
\* with as many tokens as the prompt is estimated to have plus the estimate
\* for the text that was returned.
C26_RecordsReturnedText ==
  [][\A c \in Callers :
       Answered(c) =>
         /\ RequestsRecorded(c) = 1
         /\ TokensRecorded(c) =
              estimatedPromptTokens(task[c].promptChars) + CeilDiv(task'[c].textChars, 4)]_vars

\* the step in which a call succeeds records one call, with the tokens that
\* were estimated before the request: prompt plus maxOutputTokens
C26_RecordsTheEstimate ==
  [][\A c \in Callers :
       Answered(c) =>
         /\ RequestsRecorded(c) = 1
         /\ TokensRecorded(c) =
              estimatedPromptTokens(task[c].promptChars) + task[c].maxOutputTokens]_vars

\* the positions of a throttle call in the order of the code
Waits == {"waitDaily", "waitReq", "waitTok"}
Rank(p) ==
  CASE p = "idle" -> 0
    [] p = "waitDaily" -> 1
    [] p = "waitReq" -> 2
    [] p = "waitTok" -> 3
    [] p = "passed" -> 4

\* C27: a throttle call only moves forward through its three sleeps, so it
\* takes each of them at most once and none of them again; the sleep for the
\* day ends at the reset instant, the sleep for the requests at most 60 s
\* after it began, the sleep for the tokens exactly 60 s after it began,
\* also when the estimate alone exceeds tokensPerMinute; and, timers firing
\* and the clock going on, every call returns, unless it is in a sleep that
\* ends after the clock has stopped.
C27_ThrottleReturns ==
  /\ [][\A c \in LiveCallers :
          /\ (pc'[c] # pc[c] /\ pc[c] # "passed") => Rank(pc'[c]) > Rank(pc[c])
          /\ (pc[c] \in Waits /\ pc'[c] = pc[c]) => wake'[c] = wake[c]
          /\ (pc'[c] = "waitDaily" /\ pc[c] # "waitDaily") =>
               wake'[c] = NextMidnight(now)
          /\ (pc'[c] = "waitReq" /\ pc[c] # "waitReq") =>
               wake'[c] > now /\ wake'[c] <= now + Window
          /\ (pc'[c] = "waitTok" /\ pc[c] # "waitTok") =>
               wake'[c] = now + Window]_vars
  /\ \A c \in LiveCallers :
       (pc[c] \in Waits) ~> (pc[c] = "passed" \/ (pc[c] \in Waits /\ wake[c] > Horizon))

\* a call whose estimate alone exceeds tokensPerMinute has returned; it had
\* to sleep for the tokens
C27_Witness ==
  \E c \in LiveCallers :
    /\ pc[c] = "passed"
    /\ est[c] > tokensPerMinute
    /\ th[thOf[c]].dailyRequests = 0
    /\ now >= DayMs + Window

\* the four checks, each on its own
Absent(t) == t.length = 0
TooShort(t) == t.length < minTranscriptLength
TooFewWords(t) == t.words < MinWords
LowQuality(t) == 2 * t.alnum < t.length

\* the start of the reason each check reports
Reasons ==
  <<"No transcript found", "Transcript is too short",
    "Transcript has too few words", "Transcript appears to be low quality">>

\* the first check, in the order absent, too short, too few words, low
\* quality, that the transcript fails; 0 when it passes all four
FirstFailed(t) ==
  LET failed == {k \in 1..4 :
                   \/ k = 1 /\ Absent(t)
                   \/ k = 2 /\ TooShort(t)
                   \/ k = 3 /\ TooFewWords(t)
                   \/ k = 4 /\ LowQuality(t)}
  IN IF failed = {} THEN 0
     ELSE CHOOSE k \in failed : \A j \in failed : k <= j

\* C28: the validator rejects a transcript with the reason of the first of
\* the four checks it fails and writes nothing but that reason; the four
\* reasons differ from one another; and it accepts a transcript that passes
\* all four checks, leaving the shared store as it was.
C28_FirstFailedCheck ==
  [][stage = "fetched" =>
       LET k == FirstFailed(shared.transcript)
       IN /\ Cardinality({Reasons[j] : j \in 1..4}) = 4
          /\ k = 0 => stage' = "validated" /\ shared' = shared
          /\ k # 0 =>
               /\ stage' = "invalid"
               /\ shared' = [shared EXCEPT !.error = Message("", Reasons[k])]]_vars

\* a transcript that is too short, has too few words and is of low quality
\* was rejected as too short
C28_Witness ==
  /\ stage = "invalid"
  /\ ~Absent(shared.transcript)
  /\ TooShort(shared.transcript)
  /\ TooFewWords(shared.transcript)
  /\ LowQuality(shared.transcript)
  /\ shared.error.reason = "Transcript is too short"

\* a transcript that passes the four checks was accepted
C28_WitnessAccepted ==
  /\ stage = "validated"
  /\ FirstFailed(shared.transcript) = 0
  /\ shared.error = NoMessage

\* the active timers that call the given job
ActiveTimers(job) == {t \in svc.timers : t.job = job}

\* no shutdown() has been called
NoShutdown == \A j \in 1..ShutdownCalls : svc.down[j] = "idle"

\* C29: as long as shutdown has not been called, whatever initialize() calls
\* have been made and however they overlap, at most one timer calls
\* processNextVideo and at most one calls checkForNewVideos.
C29_StartedOnce ==
  NoShutdown =>
    /\ Cardinality(ActiveTimers("processNextVideo")) <= 1
    /\ Cardinality(ActiveTimers("checkForNewVideos")) <= 1

\* two initialize() calls that both found isInitialized false, and so were
\* both waiting for connect, have both gone on to start the services
C29_Witness ==
  /\ NoShutdown
  /\ \E i \in 1..InitializeCalls, k \in 1..InitializeCalls :
       /\ i # k
       /\ svc.init[i] = "returned"
       /\ svc.init[k] = "returned"
  /\ Cardinality(ActiveTimers("processNextVideo")) = 1
  /\ Cardinality(ActiveTimers("checkForNewVideos")) = 1

\* whatever initialize() and shutdown() calls have been made, each service
\* has a timer exactly when its flag is set, and at most one
ServicesTimersMatchFlags ==
  /\ Cardinality(ActiveTimers("processNextVideo")) = (IF svc.isProcessing THEN 1 ELSE 0)
  /\ Cardinality(ActiveTimers("checkForNewVideos")) = (IF svc.isRunning THEN 1 ELSE 0)

\* the sentences the Intelligent strategy hands to its packer: the detected
\* ones, or the sampled ones for a transcript of more than 3000 tokens
PackerInput ==
  LET totalTokens == estimateTokens(chunker.transcript.chars)
  IN IF totalTokens <= minimumChunking THEN Detected
     ELSE intelligentSampled(Detected, totalTokens)

\* the Intelligent strategy has packed more than 10 sentences
PackedMany ==
  /\ Chunked
  /\ chunker.strategy = "intelligent"
  /\ Len(Detected) > 1
  /\ Len(PackerInput) > 10

\* the positions of the input, counted from 1, that window k holds when the
\* windows are perChunk wide and advance by step
WindowPositions(k, perChunk, step, n) ==
  ((k - 1) * step + 1)..Min((k - 1) * step + perChunk, n)

\* the chunks are the windows of the given width over the input, in input
\* order; together they hold every position; two consecutive ones have
\* exactly overlap positions in common
WindowsOf(input, chunks, perChunk, overlap) ==
  LET n == Len(input)
      step == perChunk - overlap
      P(k) == WindowPositions(k, perChunk, step, n)
  IN /\ step > 0
     /\ \A k \in 1..Len(chunks) :
          /\ P(k) # {}
          /\ chunks[k] = Joined([j \in 1..Cardinality(P(k)) |->
                                   input[(k - 1) * step + j]])
     /\ UNION {P(k) : k \in 1..Len(chunks)} = 1..n
     /\ \A k \in 1..(Len(chunks) - 1) :
          Cardinality(P(k) \cap P(k + 1)) = overlap

C30_WitnessSampled ==
  /\ PackedMany
  /\ estimateTokens(chunker.transcript.chars) > minimumChunking
  /\ Len(chunker.chunks) >= 2

\* the Uniform or the Bookend strategy has run its packer
GreedyPacked ==
  /\ Chunked
  /\ chunker.strategy \in {"uniform", "bookend"}
  /\ Len(Detected) > 1

\* the sentences the Uniform or the Bookend strategy hands to its packer: the
\* detected ones, or the sampled ones when sampling is needed
GreedyInput ==
  LET totalTokens == estimateTokens(chunker.transcript.chars)
      maxLength == chunker.maxTranscriptLength
  IN IF ~SamplingNeeded(totalTokens, maxLength) THEN Detected
     ELSE IF chunker.strategy = "uniform"
     THEN UniformSample(Detected, 0,
                        Max(1, FloorDiv(10 * totalTokens, 9 * maxLength)),
                        Min(3, FloorDiv(Len(Detected), 10)))
     ELSE bookendSampled(Detected, totalTokens, maxLength)

\* the sentence-token estimates of a chunk, summed
RECURSIVE SentenceTokens(_, _)
SentenceTokens(sentences, k) ==
  IF k = 0 THEN 0
  ELSE SentenceTokens(sentences, k - 1) + estimateTokens(sentences[k].chars)

\* the sentences of the chunks, one chunk after the other
ChunkSentences(chunks) ==
  Flat([k \in 1..Len(chunks) |-> chunks[k].sentences], Len(chunks))

\* C31: the greedy packer of the Uniform and Bookend strategies never splits
\* or drops a sentence: the sentences of its chunks, read chunk after chunk,
\* are the sentences it was given, each once and in the order given; no chunk
\* is empty; and the summed token estimate of a chunk's sentences exceeds the
\* target size only when the chunk is one sentence larger than the target.
C31_PackerKeepsSentences ==
  GreedyPacked =>
    LET target == forcedChunkSizeOf(GreedyInput, chunker.maxTranscriptLength)
    IN /\ ChunkSentences(chunker.chunks) = GreedyInput
       /\ \A k \in 1..Len(chunker.chunks) :
            LET held == chunker.chunks[k].sentences
            IN /\ ~chunker.chunks[k].whole
               /\ Len(held) >= 1
               /\ SentenceTokens(held, Len(held)) > target =>
                    /\ Len(held) = 1
                    /\ estimateTokens(held[1].chars) > target

\* the packer filled several chunks, one of them with several sentences
C31_Witness ==
  /\ GreedyPacked
  /\ Len(chunker.chunks) >= 3
  /\ \E k \in 1..Len(chunker.chunks) : Len(chunker.chunks[k].sentences) >= 2

\* the packer was given sentences larger than the target and put each in a
\* chunk of its own
C31_WitnessOversized ==
  /\ GreedyPacked
  /\ Len(chunker.chunks) >= 2
  /\ \A k \in 1..Len(chunker.chunks) :
       /\ Len(chunker.chunks[k].sentences) = 1
       /\ estimateTokens(chunker.chunks[k].sentences[1].chars)
            > forcedChunkSizeOf(GreedyInput, chunker.maxTranscriptLength)

\* the Intelligent strategy has sampled a transcript of more than
\* minimumChunking tokens
SampledPath ==
  /\ Chunked
  /\ chunker.strategy = "intelligent"
  /\ Len(Detected) > 1
  /\ estimateTokens(chunker.transcript.chars) > minimumChunking

\* index i lies in the first 15% or in the last 15% of n sentences
InBoundaryZone(i, n) == 20 * i < 3 * n \/ 20 * i > 17 * n

\* the importance threshold of the sampling that was made
SampledThreshold ==
  LET totalTokens == estimateTokens(chunker.transcript.chars)
      num == totalTokens
      den == targetChunkSize(totalTokens) * CeilDiv(totalTokens, maxTokensPerChunk)
  IN IF 10 * num >= 11 * den
     THEN calculateImportanceThreshold(Detected, num, den)
     ELSE calculateImportanceThreshold(Detected, 11, 10)

\* C32: in the sampling path of the Intelligent strategy every sentence in
\* the first 15% or the last 15% of the sentence sequence is in the sampled
\* output, and so in the chunks made of it, whatever its score and whatever
\* the reduction factor.
C32_BoundaryZonesKept ==
  SampledPath =>
    \A i \in 0..(Len(Detected) - 1) :
      InBoundaryZone(i, Len(Detected)) =>
        /\ \E j \in 1..Len(PackerInput) : PackerInput[j] = At(Detected, i)
        /\ \E k \in 1..Len(chunker.chunks) :
             \E j \in 1..Len(chunker.chunks[k].sentences) :
               chunker.chunks[k].sentences[j] = At(Detected, i)

\* a sampled transcript in which a sentence of the last 15% scores below the
\* importance threshold and is in the chunks all the same
C32_Witness ==
  /\ SampledPath
  /\ \E i \in 0..(Len(Detected) - 1) :
       /\ 20 * i > 17 * Len(Detected)
       /\ scoreOf(At(Detected, i), Len(Detected)) < SampledThreshold
       /\ \E k \in 1..Len(chunker.chunks) :
            \E j \in 1..Len(chunker.chunks[k].sentences) :
              chunker.chunks[k].sentences[j] = At(Detected, i)

\* a sampled transcript in which every sentence of both zones scores below
\* the importance threshold
C32_WitnessAllBelow ==
  /\ SampledPath
  /\ \A i \in 0..(Len(Detected) - 1) :
       InBoundaryZone(i, Len(Detected)) =>
         scoreOf(At(Detected, i), Len(Detected)) < SampledThreshold

\* the step is a recordApiCall on throttler t
Recording(t) == recLog' = Append(recLog, <<now, t>>)

\* the step leaves the lists of throttler t as they are or prunes the
\* entries older than 60 s, and leaves the daily counter or resets it to 0
OnlyPruned(t) ==
  /\ th'[t].requestQueue \in
       {th[t].requestQueue, Filter(th[t].requestQueue, now - Window)}
  /\ th'[t].tokenQueue \in
       {th[t].tokenQueue, Filter(th[t].tokenQueue, now - Window)}
  /\ th'[t].dailyRequests \in {th[t].dailyRequests, 0}

\* the step is one of caller c's throttle call: its start, or the code after
\* one of its sleeps
ThrottleStep(c) ==
  /\ pc[c] \in {"idle", "waitDaily", "waitReq", "waitTok"}
  /\ pc'[c] \in {"waitDaily", "waitReq", "waitTok", "passed"}
  /\ pc'[c] # pc[c] \/ wake'[c] # wake[c]

\* the calls that have passed throttle on throttler t and are not recorded
PassedUnrecorded(t) ==
  {c \in Callers : thOf[c] = t /\ pc[c] \in {"passed", "inflight"}}

\* C33: throttle() by itself never adds an entry to the request or token
\* list and never increments the daily counter: a step of throttle only
\* prunes the entries older than 60 s and resets the daily counter, and a
\* list grows or the counter rises only in a recordApiCall step.  So the
\* request list another caller's check reads counts the recorded calls of
\* the trailing 60 s only, however many calls have passed throttle and are
\* not recorded yet.
C33_ThrottleOnlyPrunes ==
  /\ [][/\ \A c \in Callers :
             ThrottleStep(c) => ~Recording(thOf[c]) /\ OnlyPruned(thOf[c])
        /\ \A t \in DOMAIN th : Recording(t) \/ OnlyPruned(t)]_vars
  /\ [](\A t \in DOMAIN th :
          Len(Filter(th[t].requestQueue, now - Window)) = WindowCount(t))

\* a call passed throttle while another call that had passed before it was
\* still unrecorded, with one slot left under the per-minute cap
C33_Witness ==
  /\ Cardinality(PassedUnrecorded(1)) = 2
  /\ WindowCount(1) = requestsPerMinute - 1
  /\ Len(th[1].requestQueue) = requestsPerMinute - 1

\* the step in which the backend request of caller c fails
RequestFailed(c) ==
  /\ pc[c] = "inflight"
  /\ task'[c].failed = task[c].failed + 1

\* every request sent so far has failed or is still under way
NoSuccessYet ==
  \A c \in Callers :
    task[c].sent = task[c].failed + (IF pc[c] = "inflight" THEN 1 ELSE 0)

\* C34: when a backend request fails, recordApiCall is not invoked: the
\* request list, the token list and the daily counter of the throttler are
\* after the failure what they were before it.  Failed attempts count
\* towards no cap: as long as no request has succeeded, both lists of the
\* throttler are empty and its daily counter has not risen, whatever number
\* of requests was sent and failed.
C34_FailureNotRecorded ==
  /\ [][/\ \A c \in Callers :
             RequestFailed(c) =>
               /\ th' = th
               /\ recLog' = recLog
               /\ dayCalls' = dayCalls
        /\ NoSuccessYet' =>
             \A t \in DOMAIN th :
               /\ th'[t].dailyRequests <= th[t].dailyRequests
               /\ dayCalls'[t] <= dayCalls[t]]_vars
  /\ [](NoSuccessYet =>
          \A t \in DOMAIN th :
            /\ th[t].requestQueue = <<>>
            /\ th[t].tokenQueue = <<>>
            /\ WindowCount(t) = 0)

\* requests up to the per-minute cap were sent within 60 s and failed, and the
\* throttler counts none of them
C34_Witness ==
  /\ NoSuccessYet
  /\ \E c \in Callers : task[c].failed >= 1 /\ pc[c] = "backoff"
  /\ IssuedInWindow(1) >= requestsPerMinute
  /\ th[1].requestQueue = <<>>

\* the step starts an iteration of the batch loop after the first one
NextIteration == batches # <<>> /\ Len(batches') > Len(batches)

\* C35: the Map stage terminates for every non-empty chunk list and every
\* maxConcurrent the node accepts: the index of the batch loop is strictly
\* larger in every iteration than in the one before, so exec makes at most
\* as many iterations as there are chunks.
C35_LoopIndexAdvances ==
  /\ [][NextIteration => loopIndex' > loopIndex]_vars
  /\ [](Len(batches) <= cfg.chunkCount)

\* with maxConcurrent at least 1 the index of the batch loop is strictly
\* larger in every iteration, and exec makes at most as many iterations as
\* there are chunks
C35_AdvancesWhenPositive ==
  /\ [][cfg.maxConcurrent >= 1 /\ NextIteration => loopIndex' > loopIndex]_vars
  /\ [](cfg.maxConcurrent >= 1 => Len(batches) <= cfg.chunkCount)

\* with maxConcurrent = 0 every iteration starts an empty batch at index 0:
\* no summarization is ever started and the loop does not end
C35_StuckAtZero ==
  [](cfg.maxConcurrent = 0 =>
       /\ loopIndex = 0
       /\ chunkSummaries = <<>>
       /\ stage \in {"chunked", "map"}
       /\ \A c \in Callers : pc[c] = "notStarted"
       /\ (stage = "map" => ENABLED BatchResolved \/ Len(batches) > MaxBatches))

\* the run has reached the Success terminal state: the formatter, the last
\* node of the flow, has stored its result
Success == stage = "formatted"

\* C36: whenever a run reaches the Success terminal state, transcript,
\* chunks, chunkSummaries, summary and formattedSummary are all set, chunks
\* is non-empty, chunkSummaries has as many entries as chunks, every entry
\* is the text a chunk's call returned, and no error is recorded.
C36_SuccessIsComplete ==
  Success =>
    /\ shared.transcript # NoTranscript
    /\ shared.chunks >= 1
    /\ Len(shared.chunkSummaries) = shared.chunks
    /\ \A k \in 1..Len(shared.chunkSummaries) : shared.chunkSummaries[k] # NoText
    /\ shared.summary # NoText
    /\ shared.formattedSummary # NoFormatted
    /\ shared.error = NoMessage
    /\ shared.thrown = NoError

\* a run over several chunks ended in Success after a request had failed
C36_Witness ==
  /\ Success
  /\ shared.chunks >= 2
  /\ \E c \in Callers : task[c].failed > 0

\* the Chunk stage stored an empty chunk list and the run ended without
\* reaching Success
C36_WitnessNoChunks ==
  /\ stage = "rejected"
  /\ chunker.ran
  /\ ~chunker.thrown
  /\ shared.chunks = 0

\* C37: every chunking strategy returns at least one chunk for every
\* transcript and every maxLength, so the Map stage never fails with 'No
\* chunks available for summarization' after a successful Chunk stage.
C37_AtLeastOneChunk ==
  /\ Chunked => Len(chunker.chunks) >= 1
  /\ shared.thrown.kind # "No chunks available for summarization"

\* totalSentencesToKeep of the Bookend strategy for the transcript of the
\* chunker: floor(sentences / reductionFactor)
BookendKeeps ==
  FloorDiv(9 * Len(Detected) * chunker.maxTranscriptLength,
           10 * estimateTokens(chunker.transcript.chars))

\* the Uniform and the Intelligent strategy return at least one chunk; the
\* Bookend strategy returns none exactly when it samples and its
\* totalSentencesToKeep is 0, that is when the sentences average more than
\* 0.9 * maxLength tokens
C37_EmptyOnlyFromBookend ==
  Chunked =>
    (Len(chunker.chunks) = 0 <=>
       /\ chunker.strategy = "bookend"
       /\ Len(Detected) > 1
       /\ SamplingNeeded(estimateTokens(chunker.transcript.chars),
                         chunker.maxTranscriptLength)
       /\ BookendKeeps = 0)

----------------------------------------------------------------------------
(* C38: overlapping processNextVideo invocations                           *)

\* the invocations that moved video v to 'processing' and went on to
\* summarize it
Summarizers(v) ==
  {r \in Runs : svc.runs[r].video = v /\ svc.runs[r].pc \notin {"finding", "marking"}}

\* C38: no queued video is summarized twice: whatever invocations of
\* processNextVideo overlap (the immediate run of startProcessing, the
\* interval timer, a second startProcessing after a stop), each pending video
\* is moved to 'processing' and summarized by at most one invocation.
C38_SummarizedOnce == \A v \in Videos : Cardinality(Summarizers(v)) <= 1

\* what does hold: an invocation only ever takes a video whose document is
\* pending at the moment its findOne resolves, the oldest one
C38_TakenWhilePending ==
  [][\A r \in Runs :
       (svc.runs[r].pc = "finding" /\ svc'.runs[r].pc = "marking")
         => /\ svc.queue[svc'.runs[r].video].status = "pending"
            /\ \A w \in PendingVideos(svc.queue) :
                 svc.queue[svc'.runs[r].video].createdAt <= svc.queue[w].createdAt]_vars

\* and a video is summarized twice only by invocations whose findOne both
\* resolved before either's save of 'processing': once a save has been
\* applied, no later findOne returns that video
C38_NotTakenAfterMark ==
  [][\A r \in Runs :
       (svc.runs[r].pc = "finding" /\ svc'.runs[r].pc = "marking")
         => Summarizers(svc'.runs[r].video) = {}]_vars

----------------------------------------------------------------------------
(* C39: the status of a queued video                                       *)

\* the status moves the claim allows: none, the creation of the document
\* as pending, and pending to processing to completed or failed
Forward(from, to) ==
  \/ from = to
  \/ <<from, to>> \in {<<"none", "pending">>, <<"pending", "processing">>,
                       <<"processing", "completed">>, <<"processing", "failed">>}

\* the invocations that took video v in state s of the service
TakersIn(s, v) == {r \in 1..Len(s.runs) : s.runs[r].video = v}

\* one step of video v: a forward move, and to completed only with a summary
ForwardStep(v) ==
  /\ Forward(svc.queue[v].status, svc'.queue[v].status)
  /\ (svc'.queue[v].status = "completed" /\ svc.queue[v].status # "completed")
       => svc'.queue[v].summaries >= 1

\* invocation r raised an error while summarizing and has returned
RaisedAndReturned(r) == svc.runs[r].raised /\ svc.runs[r].pc = "returned"

\* C39: a queued video's status only moves forward, pending to processing to
\* completed or pending to processing to failed: a completed or failed video
\* never changes status again, a video is marked completed only after its
\* summary was saved, and a video whose summarization raised an error ends
\* as failed with the error message stored.
C39_StatusMovesForward ==
  /\ [][\A v \in Videos : ForwardStep(v)]_vars
  /\ [](\A r \in Runs :
          RaisedAndReturned(r)
            => /\ svc.queue[svc.runs[r].video].status = "failed"
               /\ svc.queue[svc.runs[r].video].error)

\* what does hold: all of it for every video that one invocation took
C39_ForwardWhenTakenOnce ==
  /\ [][\A v \in Videos :
          Cardinality(TakersIn(svc', v)) <= 1 => ForwardStep(v)]_vars
  /\ [](\A r \in Runs :
          (RaisedAndReturned(r) /\ Cardinality(TakersIn(svc, svc.runs[r].video)) <= 1)
            => /\ svc.queue[svc.runs[r].video].status = "failed"
               /\ svc.queue[svc.runs[r].video].error)

\* a completed video has a saved summary, whatever overlaps
C39_CompletedHasSummary ==
  \A v \in Videos : svc.queue[v].status = "completed" => svc.queue[v].summaries >= 1

\* and a step that is not a step of an invocation (a video queued again, the
\* service started or stopped) leaves the status of every queued video alone
C39_QueueingKeepsStatus ==
  [][(\A r \in Runs : svc'.runs[r] = svc.runs[r])
       => \A v \in Videos :
            svc.queue[v].status # "none" => svc'.queue[v].status = svc.queue[v].status]_vars

====
